---- MODULE Spec2Model ----
(***************************************************************************)
(* A model of the batch form submitter of this repository:                 *)
(* BatchSubmitter (src/form_handler.py), the SubmissionResult and          *)
(* Subscriber records (src/models.py), ProxyManager                        *)
(* (src/umg_form_submitter/proxies.py), the retry configuration            *)
(* (src/umg_form_submitter/config.py) and main                             *)
(* (src/umg_form_submitter/main.py).                                       *)
(*                                                                         *)
(* The specifications share the variables; each has its own initial        *)
(* condition and next-state relation:                                      *)
(*   Spec          one submit_batch call without a proxy manager;          *)
(*   SpecInterrupt the same, interrupted by its caller;                    *)
(*   SpecBatches   several submit_batch calls on one BatchSubmitter;       *)
(*   SpecPool      the thread-pool path with tasks waiting for a worker;   *)
(*   SpecSession   the HTTP sessions of the thread-pool path;              *)
(*   SpecForm      one submit_form call with the history of its requests   *)
(*                 and sleeps; SpecBackoff adds the length of the sleeps,  *)
(*                 SpecPayload the payload of the main requests;           *)
(*   SpecStats     _update_stats and get_stats called from several threads;*)
(*   SpecKeys      the error categories of _update_stats;                  *)
(*   SpecProxy     a ProxyManager used by one thread; SpecRotation by      *)
(*                 several; SpecLoad load_proxies alone;                   *)
(*   SpecProxied   submit_batch with a proxy manager;                      *)
(*   SpecMain      main, from the loading of the files to the exit status; *)
(*   SpecEquiv     the BatchSubmitter of src/form_handler.py and the one   *)
(*                 of src/umg_form_submitter/form_handler.py side by side. *)
(***************************************************************************)
EXTENDS Integers, Sequences, FiniteSets, TLC

VARIABLES
    max_threads,    \* BatchSubmitter.max_threads
    stats,          \* BatchSubmitter.stats
    subscribers,    \* the argument of submit_batch / submit_form
    results,        \* the local list `results` of submit_batch
    pc,             \* where the thread that called submit_batch stands
    idx,            \* position of the `for subscriber in subscribers` loop
    call,           \* call[i]: the activation of submit_form for subscribers[i]
    delays,         \* inter-submission sleeps taken by submit_batch so far
    endpoint,       \* SpecForm: what each attempt will meet, fixed beforehand
    log,            \* history: what the submit_form call has sent and slept
    stats_lock,     \* self._stats_lock: 0 when free, else the thread holding it
    thread,         \* per calling thread: its position and its local variables
    snapshots,      \* the dictionaries get_stats has returned so far
    proxies,        \* ProxyManager.proxies
    rotation_strategy,      \* ProxyManager.rotation_strategy
    current_proxy_index,    \* ProxyManager.current_proxy_index
    source,         \* the proxy file of the latest load_proxies call
    returned,       \* history: what get_next_proxy has returned since then
    proxy_manager,  \* self.proxy_manager is not None
    proxy           \* per record: the proxy handed to its submit_form call

\* What the callers of _update_stats and get_stats add to the state.
statsVars == <<stats_lock, thread, snapshots>>

\* The ProxyManager and what is observed of it.
proxyVars ==
    <<proxies, rotation_strategy, current_proxy_index, source, returned>>

vars ==
    <<max_threads, stats, subscribers, results, pc, idx, call, delays, endpoint,
      log, statsVars, proxyVars, proxy_manager, proxy>>

(***************************************************************************)
(* Bounds of the model.                                                    *)
(***************************************************************************)
MaxSubscribers == 2     \* longest list handed to submit_batch
MaxThreads == 2         \* largest max_threads given to the constructor
MaxQueued == 3          \* longest list handed to the thread pool (SpecPool)
MaxCallers == 2         \* threads calling _update_stats / get_stats (SpecStats)
MaxUpdates == 2         \* _update_stats calls of one run (SpecStats, SpecKeys)
MaxSnapshots == 2       \* get_stats calls of one run (SpecStats)
MaxCalls == 4           \* get_next_proxy calls on one loaded pool (SpecProxy)
MaxLines == 3           \* longest proxy file (SpecLoad)
MaxRows == 2            \* longest subscriber file (SpecMain)
MaxBatches == 2         \* submit_batch calls on one BatchSubmitter (SpecBatches)

(***************************************************************************)
(* Program constants.                                                      *)
(***************************************************************************)
MAX_RETRIES == 3
RETRY_DELAY_MIN == 2    \* seconds (2.0)
RETRY_DELAY_MAX == 5    \* seconds (5.0)
NoStatus == 0           \* status_code: Optional[int] = None

None == "None"          \* Python's None in a text-valued field

(***************************************************************************)
(* Texts.  A Python str is held in the state as a TLA+ string; Chars gives *)
(* its characters, which is what the substring tests, the lower-casing and *)
(* the slicing of _update_stats work on, and Str goes back.                *)
(***************************************************************************)
Texts ==
    { "HTTP 200: ", "HTTP 201: ", "HTTP 403: ", "HTTP 404: ", "HTTP 429: ", "HTTP 500: ", "HTTP 503: ",
      "Read timed out. (read timeout=30)",
      "Subscriber is None",
      "'object' object has no attribute 'email'",
      "'object' object has no attribu",
      "", "HTTP 429: 403", "HTTP 403: timeout", "Connection timeout",
      "Connection aborted.", "ConnectTimeout",
      "unknown", "rate_limit", "forbidden", "timeout", "connection",
      "h1:80:u:p_country-FR", "h2:80:u:p_country-US_session-s1", " h3:80:u:p ",
      "badline", "h1:8x:u:p",
      "h1", "h2", "h3", "u", "p", "FR", "US", "s1", "country-", "session-",
      "a@x", "b@x", "a.x" }

Chars(t) ==
    CASE t = "HTTP 200: " -> <<"H", "T", "T", "P", " ", "2", "0", "0", ":", " ">>
      [] t = "HTTP 201: " -> <<"H", "T", "T", "P", " ", "2", "0", "1", ":", " ">>
      [] t = "HTTP 403: " -> <<"H", "T", "T", "P", " ", "4", "0", "3", ":", " ">>
      [] t = "HTTP 404: " -> <<"H", "T", "T", "P", " ", "4", "0", "4", ":", " ">>
      [] t = "HTTP 429: " -> <<"H", "T", "T", "P", " ", "4", "2", "9", ":", " ">>
      [] t = "HTTP 500: " -> <<"H", "T", "T", "P", " ", "5", "0", "0", ":", " ">>
      [] t = "HTTP 503: " -> <<"H", "T", "T", "P", " ", "5", "0", "3", ":", " ">>
      [] t = "Read timed out. (read timeout=30)" ->
            <<"R", "e", "a", "d", " ", "t", "i", "m", "e", "d", " ", "o", "u",
              "t", ".", " ", "(", "r", "e", "a", "d", " ", "t", "i", "m", "e",
              "o", "u", "t", "=", "3", "0", ")">>
      [] t = "Subscriber is None" ->
            <<"S", "u", "b", "s", "c", "r", "i", "b", "e", "r", " ", "i", "s",
              " ", "N", "o", "n", "e">>
      [] t = "'object' object has no attribute 'email'" ->
            <<"'", "o", "b", "j", "e", "c", "t", "'", " ", "o", "b", "j", "e",
              "c", "t", " ", "h", "a", "s", " ", "n", "o", " ", "a", "t", "t",
              "r", "i", "b", "u", "t", "e", " ", "'", "e", "m", "a", "i", "l",
              "'">>
      [] t = "'object' object has no attribu" ->
            <<"'", "o", "b", "j", "e", "c", "t", "'", " ", "o", "b", "j", "e",
              "c", "t", " ", "h", "a", "s", " ", "n", "o", " ", "a", "t", "t",
              "r", "i", "b", "u">>
      [] t = "" -> <<>>
      [] t = "HTTP 429: 403" ->
            <<"H", "T", "T", "P", " ", "4", "2", "9", ":", " ", "4", "0", "3">>
      [] t = "HTTP 403: timeout" ->
            <<"H", "T", "T", "P", " ", "4", "0", "3", ":", " ", "t", "i", "m",
              "e", "o", "u", "t">>
      [] t = "Connection timeout" ->
            <<"C", "o", "n", "n", "e", "c", "t", "i", "o", "n", " ", "t", "i",
              "m", "e", "o", "u", "t">>
      [] t = "Connection aborted." ->
            <<"C", "o", "n", "n", "e", "c", "t", "i", "o", "n", " ", "a", "b",
              "o", "r", "t", "e", "d", ".">>
      [] t = "ConnectTimeout" ->
            <<"C", "o", "n", "n", "e", "c", "t", "T", "i", "m", "e", "o", "u",
              "t">>
      [] t = "unknown" -> <<"u", "n", "k", "n", "o", "w", "n">>
      [] t = "rate_limit" -> <<"r", "a", "t", "e", "_", "l", "i", "m", "i", "t">>
      [] t = "forbidden" -> <<"f", "o", "r", "b", "i", "d", "d", "e", "n">>
      [] t = "timeout" -> <<"t", "i", "m", "e", "o", "u", "t">>
      [] t = "connection" -> <<"c", "o", "n", "n", "e", "c", "t", "i", "o", "n">>
      [] t = "h1:80:u:p_country-FR" ->
            <<"h", "1", ":", "8", "0", ":", "u", ":", "p", "_", "c", "o",
              "u", "n", "t", "r", "y", "-", "F", "R">>
      [] t = "h2:80:u:p_country-US_session-s1" ->
            <<"h", "2", ":", "8", "0", ":", "u", ":", "p", "_", "c", "o",
              "u", "n", "t", "r", "y", "-", "U", "S", "_", "s", "e", "s",
              "s", "i", "o", "n", "-", "s", "1">>
      [] t = " h3:80:u:p " ->
            <<" ", "h", "3", ":", "8", "0", ":", "u", ":", "p", " ">>
      [] t = "badline" ->
            <<"b", "a", "d", "l", "i", "n", "e">>
      [] t = "h1:8x:u:p" ->
            <<"h", "1", ":", "8", "x", ":", "u", ":", "p">>
      [] t = "h1" ->
            <<"h", "1">>
      [] t = "h2" ->
            <<"h", "2">>
      [] t = "h3" ->
            <<"h", "3">>
      [] t = "u" ->
            <<"u">>
      [] t = "p" ->
            <<"p">>
      [] t = "FR" ->
            <<"F", "R">>
      [] t = "US" ->
            <<"U", "S">>
      [] t = "s1" ->
            <<"s", "1">>
      [] t = "country-" ->
            <<"c", "o", "u", "n", "t", "r", "y", "-">>
      [] t = "session-" ->
            <<"s", "e", "s", "s", "i", "o", "n", "-">>
      [] t = "a@x" -> <<"a", "@", "x">>
      [] t = "b@x" -> <<"b", "@", "x">>
      [] t = "a.x" -> <<"a", ".", "x">>

Str(cs) == CHOOSE t \in Texts : Chars(t) = cs

\* str.lower() of one character
LowerChar(c) ==
    CASE c = "H" -> "h" [] c = "T" -> "t" [] c = "P" -> "p" [] c = "R" -> "r"
      [] c = "S" -> "s" [] c = "N" -> "n" [] c = "C" -> "c" [] c = "F" -> "f"
      [] c = "U" -> "u" [] OTHER -> c

Lower(cs) == [k \in 1..Len(cs) |-> LowerChar(cs[k])]

\* `sub in cs`
Contains(sub, cs) ==
    \E k \in 0..(Len(cs) - Len(sub)) :
        \A j \in 1..Len(sub) : cs[k + j] = sub[j]

\* cs[:n]
Prefix(cs, n) == IF Len(cs) <= n THEN cs ELSE SubSeq(cs, 1, n)

\* str(n) of a three-digit status code
Digit(d) ==
    CASE d = 0 -> "0" [] d = 1 -> "1" [] d = 2 -> "2" [] d = 3 -> "3"
      [] d = 4 -> "4" [] d = 5 -> "5" [] d = 6 -> "6" [] d = 7 -> "7"
      [] d = 8 -> "8" [] d = 9 -> "9"

Digits(n) == <<Digit(n \div 100), Digit((n \div 10) % 10), Digit(n % 10)>>

(***************************************************************************)
(* Data model (src/models.py).  An element of the list handed to           *)
(* submit_batch is a Subscriber, None, or an object of another type that   *)
(* has no `email` attribute.                                               *)
(***************************************************************************)
Subscriber(email, country, postcode) ==
    [type |-> "Subscriber", email |-> email, country |-> country,
     postcode |-> postcode]

NoneItem == [type |-> "NoneType", email |-> "", country |-> "", postcode |-> ""]

ForeignItem == [type |-> "object", email |-> "", country |-> "", postcode |-> ""]

Items ==
    { Subscriber("a@x", "FR", "75001"), Subscriber("b@x", "", ""),
      NoneItem, ForeignItem }

\* The inputs of submit_batch: every list of at most MaxSubscribers items.
SubscriberLists ==
    UNION { [1..n -> Items] : n \in 0..MaxSubscribers }

\* A SubmissionResult as its constructor leaves it.  `subscriber` is a
\* reference: the position in `subscribers` of the object referred to, or 0
\* for the empty Subscriber that submit_form creates for a None record.
\* response_data is the attribute submit_form adds on success.
SubmissionResult(subscriber, success) ==
    [subscriber |-> subscriber, success |-> success, status_code |-> NoStatus,
     error_message |-> None, attempts |-> 0, response_data |-> None]

(***************************************************************************)
(* The endpoint and the transport, as one submit_form attempt sees them:   *)
(* each request either gets a response with a status or raises.            *)
(***************************************************************************)
Response(status) == [raised |-> FALSE, status |-> status, text |-> None]

Raise(text) == [raised |-> TRUE, status |-> NoStatus, text |-> text]

OptionsOutcomes ==
    { Response(s) : s \in {204, 403} }
        \cup { Raise("Read timed out. (read timeout=30)") }

PostStatuses == {200, 201, 403, 404, 429, 500, 503}

PostOutcomes ==
    { Response(s) : s \in PostStatuses }
        \cup { Raise("Read timed out. (read timeout=30)") }

\* What one attempt meets: the outcome of its pre-flight and, if the main
\* request is sent, the outcome of the main request.
Meets == [options : OptionsOutcomes, post : PostOutcomes]

\* One entry of the history of a submit_form call.
Event(ev, attempt, outcome) ==
    [ev |-> ev, attempt |-> attempt, raised |-> outcome.raised,
     status |-> outcome.status]

Pause(attempt) == Event("PAUSE", attempt, Response(NoStatus))

Sleep(attempt) == Event("SLEEP", attempt, Response(NoStatus))

(***************************************************************************)
(* submit_form.  An activation is [pc, attempt, result, exc]:              *)
(*   pc       "idle" not called, "queued" waiting in the executor,         *)
(*            "loop" about to run iteration `attempt` of the retry loop,   *)
(*            "return" returned `result`, "raised" left by exception       *)
(*            `exc`, "collected" the caller has taken the outcome;         *)
(*   attempt  the loop variable of `for attempt in range(MAX_RETRIES)`.    *)
(***************************************************************************)
Idle ==
    [pc |-> "idle", attempt |-> 0, result |-> SubmissionResult(0, FALSE),
     exc |-> None]

Queued == [Idle EXCEPT !.pc = "queued"]

Collected == [Idle EXCEPT !.pc = "collected"]

\* f"HTTP {response.status_code}: {response.text}", the body being empty
HttpError(status) == Str(<<"H", "T", "T", "P", " ">> \o Digits(status) \o <<":", " ">>)

\* Lines 114-132: the None check, the log line that reads subscriber.email,
\* the result object.
SubmitFormEnter(i, subscriber) ==
    IF subscriber.type = "NoneType"
    THEN [Idle EXCEPT !.pc = "return",
                      !.result = [SubmissionResult(0, FALSE) EXCEPT
                                     !.error_message = "Subscriber is None"]]
    ELSE IF subscriber.type # "Subscriber"
    THEN [Idle EXCEPT !.pc = "raised",
                      !.exc = "'object' object has no attribute 'email'"]
    ELSE [Idle EXCEPT !.pc = "loop", !.result = SubmissionResult(i, FALSE)]

\* Mutant: 201 Created is not taken for a success.
IsSuccessStatus_Only200(status) == status = 200

\* Line 185
IsSuccessStatus(status) == status \in {200, 201}

\* Mutant: a rate-limit answer is not in the transient set.
IsTransientStatus_Only503(status) == status = 503

\* Line 194
IsTransientStatus(status) == status \in {429, 503}

\* Mutant: the server errors, not the client errors, end the call.
IsClientError_ServerRange(status) == 500 <= status /\ status < 600

\* Line 197
IsClientError(status) == 400 <= status /\ status < 500

\* Mutant: the loop is one iteration short, range(MAX_RETRIES - 1).
NextAttempt_OneShort(f) ==
    IF f.attempt + 1 < MAX_RETRIES - 1
    THEN [f EXCEPT !.attempt = @ + 1]
    ELSE [f EXCEPT !.pc = "return"]

\* The end of an iteration that does not return: the loop takes the next
\* value of range(MAX_RETRIES), or falls through to `return result`.
NextAttempt(f) ==
    IF f.attempt + 1 < MAX_RETRIES
    THEN [f EXCEPT !.attempt = @ + 1]
    ELSE [f EXCEPT !.pc = "return"]

\* Lines 185-199: the main request got a response.
OnResponse(f, status, sent) ==
    IF IsSuccessStatus(status)
    THEN [frame |-> [f EXCEPT !.result.success = TRUE,
                              !.result.response_data = "payload",
                              !.pc = "return"],
          events |-> sent]
    ELSE LET g == [f EXCEPT !.result.error_message = HttpError(status)]
         IN  IF IsTransientStatus(status)
             THEN [frame |-> NextAttempt(g),
                   events |-> Append(sent, Sleep(f.attempt))]
             ELSE IF IsClientError(status)
             THEN [frame |-> [g EXCEPT !.pc = "return"], events |-> sent]
             ELSE [frame |-> NextAttempt(g),
                   events |-> Append(sent, Sleep(f.attempt))]

\* An except branch that does not record the text of the exception.
OnException_NoText(f, text, sent) ==
    [frame |-> NextAttempt(f),
     events |-> IF f.attempt < MAX_RETRIES - 1
                THEN Append(sent, Sleep(f.attempt))
                ELSE sent]

\* Lines 200-206: a request of the iteration raised.
OnException(f, text, sent) ==
    [frame |-> NextAttempt([f EXCEPT !.result.error_message = text]),
     events |-> IF f.attempt < MAX_RETRIES - 1
                THEN Append(sent, Sleep(f.attempt))
                ELSE sent]

\* Lines 135-206: one iteration of the retry loop, given what the pre-flight
\* and the main request meet.  The new activation and, in order, what the
\* iteration sent and slept.
Attempt(f, options, post) ==
    LET preflight == <<Event("OPTIONS", f.attempt, options)>>
        sent == preflight \o <<Pause(f.attempt), Event("POST", f.attempt, post)>>
    IN  IF options.raised
        THEN OnException(f, options.text, preflight)
        ELSE IF post.raised
        THEN OnException(f, post.text, sent)
        ELSE OnResponse(f, post.status, sent)

(***************************************************************************)
(* _update_stats and the stats dictionary (lines 70-75, 210-223).          *)
(***************************************************************************)
NewStats == [total |-> 0, success |-> 0, failure |-> 0, errors |-> <<>>]

IsTruthy(text) == text # None /\ Chars(text) # <<>>

ErrorKey_TimeoutFirst(result) ==
    LET err == IF IsTruthy(result.error_message)
               THEN Chars(result.error_message)
               ELSE Chars("unknown")
    IN  IF Contains(<<"4", "2", "9">>, err) THEN "rate_limit"
        ELSE IF Contains(Chars("timeout"), Lower(err)) THEN "timeout"
        ELSE IF Contains(<<"4", "0", "3">>, err) THEN "forbidden"
        ELSE IF Contains(Chars("connection"), Lower(err)) THEN "connection"
        ELSE Str(Prefix(err, 30))

\* Lines 218-222: the error category of a failed result.
ErrorKey(result) ==
    LET err == IF IsTruthy(result.error_message)
               THEN Chars(result.error_message)
               ELSE Chars("unknown")
    IN  IF Contains(<<"4", "2", "9">>, err) THEN "rate_limit"
        ELSE IF Contains(<<"4", "0", "3">>, err) THEN "forbidden"
        ELSE IF Contains(Chars("timeout"), Lower(err)) THEN "timeout"
        ELSE IF Contains(Chars("connection"), Lower(err)) THEN "connection"
        ELSE Str(Prefix(err, 30))

\* errors[key] += 1 on a defaultdict(int)
Increment(errors, key) ==
    [k \in (DOMAIN errors) \cup {key} |->
        (IF k \in DOMAIN errors THEN errors[k] ELSE 0) + (IF k = key THEN 1 ELSE 0)]

UpdateStats(st, result) ==
    IF result.success
    THEN [st EXCEPT !.total = @ + 1, !.success = @ + 1]
    ELSE [st EXCEPT !.total = @ + 1, !.failure = @ + 1,
                    !.errors = Increment(st.errors, ErrorKey(result))]

(***************************************************************************)
(* Proxy and ProxyManager (src/umg_form_submitter/proxies.py).  An         *)
(* Optional[Proxy] is a sequence: <<>> for None, <<p>> for the proxy p.    *)
(***************************************************************************)
Proxy(hostname, port, username, password, country, session_id) ==
    [hostname |-> hostname, port |-> port, username |-> username,
     password |-> password, country |-> country, session_id |-> session_id]

NoProxy == <<>>

Some(p) == <<p>>

\* str.strip(), the white space being blanks
RECURSIVE StripLeft(_)
StripLeft(cs) ==
    IF cs # <<>> /\ Head(cs) = " " THEN StripLeft(Tail(cs)) ELSE cs

Reverse(cs) == [k \in 1..Len(cs) |-> cs[Len(cs) + 1 - k]]

Strip(cs) == Reverse(StripLeft(Reverse(StripLeft(cs))))

\* str.split(sep), sep being one character
RECURSIVE Split(_, _)
Split(cs, sep) ==
    IF \E k \in DOMAIN cs : cs[k] = sep
    THEN LET k == CHOOSE i \in DOMAIN cs :
                      cs[i] = sep /\ \A j \in 1..(i - 1) : cs[j] # sep
         IN  <<SubSeq(cs, 1, k - 1)>> \o Split(SubSeq(cs, k + 1, Len(cs)), sep)
    ELSE <<cs>>

\* str.startswith(prefix)
StartsWith(cs, prefix) ==
    Len(cs) >= Len(prefix) /\ SubSeq(cs, 1, Len(prefix)) = prefix

\* str.replace(old, '')
RECURSIVE Remove(_, _)
Remove(cs, old) ==
    IF cs = <<>> THEN <<>>
    ELSE IF StartsWith(cs, old)
         THEN Remove(SubSeq(cs, Len(old) + 1, Len(cs)), old)
         ELSE <<Head(cs)>> \o Remove(Tail(cs), old)

\* int(text) succeeds: the text is a run of decimal digits (the proxy lines
\* of the model hold no sign, blank or underscore in the port)
IsInt(cs) ==
    cs # <<>> /\ \A k \in DOMAIN cs : \E d \in 0..9 : cs[k] = Digit(d)

\* int(text)
RECURSIVE IntOf(_)
IntOf(cs) ==
    IF cs = <<>> THEN 0
    ELSE 10 * IntOf(SubSeq(cs, 1, Len(cs) - 1))
            + (CHOOSE d \in 0..9 : Digit(d) = cs[Len(cs)])

\* Lines 92-99: the value of the last part that starts with tag, else None
Tagged(parts, tag) ==
    LET hits == { k \in DOMAIN parts : StartsWith(parts[k], Chars(tag)) }
    IN  IF hits = {} THEN None
        ELSE Str(Remove(parts[CHOOSE k \in hits : \A j \in hits : j <= k],
                        Chars(tag)))

\* Line 76: a line needs this many colon-delimited segments
MinSegments == 4

\* _parse_proxy_line (lines 72-108): [raised, proxy], the proxy being NoProxy
\* for `return None` and when int() raises ValueError.
ParseProxyLine(line) ==
    LET main_parts == Split(line, ":")
    IN  IF Len(main_parts) < MinSegments
        THEN [raised |-> FALSE, proxy |-> NoProxy]
        ELSE IF ~IsInt(main_parts[2])
        THEN [raised |-> TRUE, proxy |-> NoProxy]
        ELSE LET meta_parts == Split(main_parts[4], "_")
             IN  [raised |-> FALSE,
                  proxy |-> Some(Proxy(Str(main_parts[1]), IntOf(main_parts[2]),
                                       Str(main_parts[3]), Str(meta_parts[1]),
                                       Tagged(Tail(meta_parts), "country-"),
                                       Tagged(Tail(meta_parts), "session-")))]

\* Line 55: [line.strip() for line in f if line.strip()]
RECURSIVE ProxyLines(_)
ProxyLines(lines) ==
    IF lines = <<>> THEN <<>>
    ELSE LET line == Strip(Chars(Head(lines)))
         IN  (IF line # <<>> THEN <<line>> ELSE <<>>) \o ProxyLines(Tail(lines))

\* A loader that gives up at the first line it cannot parse, as one with the
\* try block around the whole loop would.
RECURSIVE ParseAll_StopAtBadLine(_)
ParseAll_StopAtBadLine(proxy_lines) ==
    IF proxy_lines = <<>> THEN <<>>
    ELSE LET parsed == ParseProxyLine(Head(proxy_lines))
         IN  IF parsed.proxy = NoProxy THEN <<>>
             ELSE parsed.proxy \o ParseAll_StopAtBadLine(Tail(proxy_lines))

\* Lines 57-66: the loop that parses the lines and appends the proxies; a
\* line that raises or gives None appends nothing.
RECURSIVE ParseAll(_)
ParseAll(proxy_lines) ==
    IF proxy_lines = <<>> THEN <<>>
    ELSE ParseProxyLine(Head(proxy_lines)).proxy \o ParseAll(Tail(proxy_lines))

\* A proxy file: whether open() succeeds, and its lines.
File(readable, lines) == [readable |-> readable, lines |-> lines]

NoFile == File(FALSE, <<>>)

\* Lines 114-120
GetRandomProxy(pool) ==
    IF pool = <<>> THEN { NoProxy } ELSE { Some(pool[k]) : k \in DOMAIN pool }

CountryProxies_All(pool, country_code) == pool

\* Line 124
CountryProxies(pool, country_code) ==
    SelectSeq(pool, LAMBDA p : p.country = country_code)

\* Lines 122-130
GetProxyByCountry(pool, country_code) ==
    GetRandomProxy(CountryProxies(pool, country_code))

\* What a call of get_next_proxy does: whether it raises, the value it
\* returns, the value it leaves in current_proxy_index.
Outcome(raised, value, index) ==
    [raised |-> raised, proxy |-> value, index |-> index]

\* A round-robin step that leaves current_proxy_index where it is.
GetRoundRobinProxy_Stuck(pool, index) ==
    IF pool = <<>> THEN Outcome(FALSE, NoProxy, index)
    ELSE IF index >= Len(pool) THEN Outcome(TRUE, NoProxy, index)
    ELSE Outcome(FALSE, NoProxy, index)

\* Lines 153-163.  The method ends after the assignment to
\* current_proxy_index: it has no return statement, so its value is None.
GetRoundRobinProxy(pool, index) ==
    IF pool = <<>> THEN Outcome(FALSE, NoProxy, index)
    ELSE IF index >= Len(pool) THEN Outcome(TRUE, NoProxy, index)
    ELSE LET picked == pool[index + 1]
         IN  Outcome(FALSE, NoProxy, (index + 1) % Len(pool))

EmptyPoolOutcome_Advance(index) == Outcome(FALSE, NoProxy, index + 1)

\* Lines 134-136
EmptyPoolOutcome(index) == Outcome(FALSE, NoProxy, index)

\* get_next_proxy (lines 132-151): the set of its possible outcomes, one for
\* each value random.choice can give.
GetNextProxy(pool, strategy, index, country_code) ==
    LET random == { Outcome(FALSE, v, index) : v \in GetRandomProxy(pool) }
    IN  IF pool = <<>> THEN { EmptyPoolOutcome(index) }
        ELSE IF strategy = "random" THEN random
        ELSE IF strategy = "round_robin" THEN { GetRoundRobinProxy(pool, index) }
        ELSE IF strategy = "country_match" /\ country_code \notin {None, ""}
        THEN LET country_proxies == GetProxyByCountry(pool, country_code)
             IN  IF NoProxy \in country_proxies THEN random
                 ELSE { Outcome(FALSE, v, index) : v \in country_proxies }
        ELSE random

\* The state of a BatchSubmitter built without a proxy manager.
NoManager ==
    /\ proxies = <<>>
    /\ rotation_strategy = "random"
    /\ current_proxy_index = 0
    /\ source = NoFile
    /\ returned = <<>>
    /\ proxy_manager = FALSE
    /\ proxy = <<>>

(***************************************************************************)
(* submit_batch (lines 78-112).                                            *)
(*   pc  "idle" before the call, "seq" in the single-threaded loop,        *)
(*       "submit" in the loop that hands the tasks to the executor,        *)
(*       "collect" in the as_completed loop, "done" after `return results`,*)
(*       "raised" when an exception has left submit_batch,                 *)
(*       "interrupted" when a KeyboardInterrupt has left it,               *)
(*       "form" when submit_form is called on its own (SpecForm).          *)
(***************************************************************************)
Max(a, b) == IF a >= b THEN a ELSE b

\* __init__ (lines 67-76), for every max_threads argument in 0..MaxThreads
Init ==
    /\ max_threads \in { Max(1, m) : m \in 0..MaxThreads }
    /\ stats = NewStats
    /\ subscribers = <<>>
    /\ results = <<>>
    /\ pc = "idle"
    /\ idx = 1
    /\ call = <<>>
    /\ delays = 0
    /\ endpoint = <<>>
    /\ log = <<>>
    /\ stats_lock = 0
    /\ thread = <<>>
    /\ snapshots = <<>>
    /\ NoManager

\* Lines 78-80 (and 83 / 96 for an empty list): the call and the choice of
\* the path.
SubmitBatch(subs) ==
    /\ pc = "idle"
    /\ subscribers' = subs
    /\ results' = <<>>
    /\ call' = [i \in 1..Len(subs) |-> Idle]
    /\ proxy' = [i \in 1..Len(subs) |-> NoProxy]
    /\ idx' = 1
    /\ pc' = IF Len(subs) = 0 THEN "done"
             ELSE IF max_threads > 1 THEN "submit" ELSE "seq"
    /\ UNCHANGED <<max_threads, stats, delays, endpoint, log, statsVars,
                   proxyVars, proxy_manager>>

\* Lines 84-86 / 97-99: `proxy = None`, and with a proxy manager
\* `proxy = self.proxy_manager.get_next_proxy(subscriber.country)`, where
\* reading .country of an element that has none raises AttributeError.
ProxyFor(subscriber) ==
    IF ~proxy_manager
    THEN { Outcome(FALSE, NoProxy, current_proxy_index) }
    ELSE IF subscriber.type # "Subscriber"
    THEN { Outcome(TRUE, NoProxy, current_proxy_index) }
    ELSE GetNextProxy(proxies, rotation_strategy, current_proxy_index,
                      subscriber.country)

\* The effect of lines 84-86 / 97-99 with outcome o, and of what follows
\* them when they do not raise: `frame` becomes the activation for
\* subscribers[idx], and the loop is at `next`.  An exception raised here is
\* outside every try block and leaves submit_batch: pc "raised".
Dispatch(o, frame, next) ==
    /\ current_proxy_index' = o.index
    /\ returned' = IF proxy_manager /\ ~o.raised
                   THEN Append(returned, o.proxy) ELSE returned
    /\ IF o.raised
       THEN /\ pc' = "raised"
            /\ UNCHANGED <<call, proxy, idx>>
       ELSE /\ proxy' = [proxy EXCEPT ![idx] = o.proxy]
            /\ call' = [call EXCEPT ![idx] = frame]
            /\ pc' = next.pc
            /\ idx' = next.idx
    /\ UNCHANGED <<max_threads, stats, subscribers, results, delays, endpoint,
                   log, statsVars, proxies, rotation_strategy, source,
                   proxy_manager>>

\* Lines 96-101: the sequential loop takes the next subscriber, gets its
\* proxy and calls submit_form.
SeqCall ==
    /\ pc = "seq"
    /\ call[idx].pc = "idle"
    /\ \E o \in ProxyFor(subscribers[idx]) :
          Dispatch(o, SubmitFormEnter(idx, subscribers[idx]),
                   [pc |-> pc, idx |-> idx])

\* One iteration of the retry loop of the activation for subscribers[i],
\* its requests meeting one of `outcomes`.
IterateMeeting(i, outcomes) ==
    /\ pc \in {"seq", "submit", "collect", "raised", "interrupted"}
    /\ call[i].pc = "loop"
    /\ \E f \in { Attempt(call[i], meets.options, meets.post).frame : meets \in outcomes } :
          call' = [call EXCEPT ![i] = f]
    /\ UNCHANGED <<max_threads, stats, subscribers, results, pc, idx, delays,
                   endpoint, log, statsVars, proxyVars, proxy_manager, proxy>>

Iterate(i) == IterateMeeting(i, Meets)

\* A loop that puts each result at the head of the list.
SeqAdvance_Prepend(result) ==
    /\ results' = <<result>> \o results
    /\ stats' = UpdateStats(stats, result)
    /\ delays' = IF subscribers[idx] # subscribers[Len(subscribers)]
                 THEN delays + 1 ELSE delays
    /\ call' = [call EXCEPT ![idx] = Collected]
    /\ idx' = idx + 1
    /\ pc' = IF idx = Len(subscribers) THEN "done" ELSE "seq"
    /\ UNCHANGED <<max_threads, subscribers, endpoint, log, statsVars,
                   proxyVars, proxy_manager, proxy>>

\* Lines 102-103 / 108-109 and 110-111: the result joins the list and the
\* stats, the loop sleeps unless the subscriber equals the last one, and
\* goes on to the next subscriber or to `return results`.
SeqAdvance(result) ==
    /\ results' = Append(results, result)
    /\ stats' = UpdateStats(stats, result)
    /\ delays' = IF subscribers[idx] # subscribers[Len(subscribers)]
                 THEN delays + 1 ELSE delays
    /\ call' = [call EXCEPT ![idx] = Collected]
    /\ idx' = idx + 1
    /\ pc' = IF idx = Len(subscribers) THEN "done" ELSE "seq"
    /\ UNCHANGED <<max_threads, subscribers, endpoint, log, statsVars,
                   proxyVars, proxy_manager, proxy>>

\* Lines 101-103: submit_form returned.
SeqReturn ==
    /\ pc = "seq"
    /\ call[idx].pc = "return"
    /\ SeqAdvance(call[idx].result)

\* An except branch that appends the synthesized result without line 109.
SeqExcept_Uncounted ==
    /\ pc = "seq"
    /\ call[idx].pc = "raised"
    /\ results' = Append(results, [SubmissionResult(idx, FALSE) EXCEPT
                                      !.error_message = call[idx].exc])
    /\ delays' = IF subscribers[idx] # subscribers[Len(subscribers)]
                 THEN delays + 1 ELSE delays
    /\ call' = [call EXCEPT ![idx] = Collected]
    /\ idx' = idx + 1
    /\ pc' = IF idx = Len(subscribers) THEN "done" ELSE "seq"
    /\ UNCHANGED <<max_threads, stats, subscribers, endpoint, log, statsVars,
                   proxyVars, proxy_manager, proxy>>

\* Lines 104-109: submit_form raised.
SeqExcept ==
    /\ pc = "seq"
    /\ call[idx].pc = "raised"
    /\ SeqAdvance([SubmissionResult(idx, FALSE) EXCEPT
                      !.error_message = call[idx].exc])

\* Lines 83-87: the next task gets its proxy and is handed to the executor.
PoolSubmit ==
    /\ pc = "submit"
    /\ \E o \in ProxyFor(subscribers[idx]) :
          Dispatch(o, Queued,
                   [pc |-> IF idx = Len(subscribers) THEN "collect" ELSE "submit",
                    idx |-> idx + 1])

Running == { j \in DOMAIN call : call[j].pc = "loop" }

WorkerFree_Unbounded == TRUE

\* max_workers=self.max_threads: a task starts only on a worker that is not
\* running one.
WorkerFree == Cardinality(Running) < max_threads

\* ThreadPoolExecutor(max_workers=self.max_threads), line 81: a free worker
\* takes the oldest queued task and enters submit_form.
WorkerStart(i) ==
    /\ pc \in {"submit", "collect", "raised", "interrupted"}
    /\ call[i].pc = "queued"
    /\ \A j \in 1..(i - 1) : call[j].pc # "queued"
    /\ WorkerFree
    /\ call' = [call EXCEPT ![i] = SubmitFormEnter(i, subscribers[i])]
    /\ UNCHANGED <<max_threads, stats, subscribers, results, pc, idx, delays,
                   endpoint, log, statsVars, proxyVars, proxy_manager, proxy>>

\* The as_completed loop ends, and submit_batch returns, when it has
\* yielded every future.
AfterCollect(i) ==
    IF \A j \in DOMAIN call : j # i => call[j].pc = "collected"
    THEN "done" ELSE "collect"

\* Lines 88-92: as_completed yields a future that holds a result.
Collect(i) ==
    /\ pc = "collect"
    /\ call[i].pc = "return"
    /\ results' = Append(results, call[i].result)
    /\ stats' = UpdateStats(stats, call[i].result)
    /\ call' = [call EXCEPT ![i] = Collected]
    /\ pc' = AfterCollect(i)
    /\ UNCHANGED <<max_threads, subscribers, idx, delays, endpoint, log,
                   statsVars, proxyVars, proxy_manager, proxy>>

\* Lines 88-90, 93-94: as_completed yields a future that holds an exception.
CollectException(i) ==
    /\ pc = "collect"
    /\ call[i].pc = "raised"
    /\ call' = [call EXCEPT ![i] = Collected]
    /\ pc' = AfterCollect(i)
    /\ UNCHANGED <<max_threads, stats, subscribers, results, idx, delays,
                   endpoint, log, statsVars, proxyVars, proxy_manager, proxy>>

Next ==
    \/ \E subs \in SubscriberLists : SubmitBatch(subs)
    \/ SeqCall
    \/ SeqReturn
    \/ SeqExcept
    \/ PoolSubmit
    \/ \E i \in DOMAIN call : WorkerStart(i)
    \/ \E i \in DOMAIN call : Iterate(i)
    \/ \E i \in DOMAIN call : Collect(i)
    \/ \E i \in DOMAIN call : CollectException(i)

Spec == Init /\ [][Next]_vars

(***************************************************************************)
(* submit_batch interrupted by its caller.  A KeyboardInterrupt is raised  *)
(* in the thread that runs submit_batch, between two records: in the       *)
(* sequential loop after a record is done (the sleep of line 111           *)
(* included), in the thread-pool path between two executor.submit calls or *)
(* between two futures of as_completed.  KeyboardInterrupt is not an       *)
(* Exception, so the except clauses of lines 93 and 104 do not take it,    *)
(* and submit_batch has no other handler: the interrupt leaves the call,   *)
(* after the `with` block of line 81 has let the running workers finish.   *)
(***************************************************************************)
BetweenRecords ==
    \/ pc = "seq" /\ idx > 1 /\ call[idx].pc = "idle"
    \/ pc = "submit" /\ idx > 1
    \/ pc = "collect" /\ \E j \in DOMAIN call : call[j].pc = "collected"

Interrupt ==
    /\ BetweenRecords
    /\ pc' = "interrupted"
    /\ UNCHANGED <<max_threads, stats, subscribers, results, idx, call, delays,
                   endpoint, log, statsVars, proxyVars, proxy_manager, proxy>>

NextInterrupt == Next \/ Interrupt

SpecInterrupt == Init /\ [][NextInterrupt]_vars

(***************************************************************************)
(* Several submit_batch calls, one after another, on one BatchSubmitter.   *)
(* log is the history of the calls that have returned: the length of the   *)
(* list each returned.  The stats dictionary is the one built by __init__  *)
(* (lines 70-75): submit_batch never replaces it.                          *)
(***************************************************************************)
BatchItems == { Subscriber("a@x", "FR", "75001"), ForeignItem }

BatchLists == UNION { [1..n -> BatchItems] : n \in 0..MaxSubscribers }

\* What the requests of this model meet: the pre-flight is answered, the
\* main request is accepted or rate-limited.
BatchMeets == [options : { Response(204) }, post : { Response(200), Response(503) }]

\* The caller has taken the list of the call that returned, whose local
\* variable `results` is gone with its frame, and is free to call
\* submit_batch again.
CallAgain ==
    /\ pc = "done"
    /\ Len(log) + 1 < MaxBatches
    /\ log' = Append(log, Len(results))
    /\ results' = <<>>
    /\ pc' = "idle"
    /\ UNCHANGED <<max_threads, stats, subscribers, idx, call, delays,
                   endpoint, statsVars, proxyVars, proxy_manager, proxy>>

NextBatches ==
    \/ \E subs \in BatchLists : SubmitBatch(subs)
    \/ SeqCall
    \/ SeqReturn
    \/ SeqExcept
    \/ PoolSubmit
    \/ \E i \in DOMAIN call : WorkerStart(i)
    \/ \E i \in DOMAIN call : IterateMeeting(i, BatchMeets)
    \/ \E i \in DOMAIN call : Collect(i)
    \/ \E i \in DOMAIN call : CollectException(i)
    \/ CallAgain

SpecBatches == Init /\ [][NextBatches]_vars

(***************************************************************************)
(* The thread-pool path of submit_batch on its own: max_threads > 1 and    *)
(* up to MaxQueued records, so that tasks wait for a free worker.          *)
(***************************************************************************)
PoolItems == { Subscriber("a@x", "FR", "75001"), ForeignItem }

PoolLists == UNION { [1..n -> PoolItems] : n \in 0..MaxQueued }

InitPool ==
    /\ max_threads \in { Max(1, m) : m \in 2..MaxThreads }
    /\ stats = NewStats
    /\ subscribers = <<>>
    /\ results = <<>>
    /\ pc = "idle"
    /\ idx = 1
    /\ call = <<>>
    /\ delays = 0
    /\ endpoint = <<>>
    /\ log = <<>>
    /\ stats_lock = 0
    /\ thread = <<>>
    /\ snapshots = <<>>
    /\ NoManager

NextPool ==
    \/ \E subs \in PoolLists : SubmitBatch(subs)
    \/ PoolSubmit
    \/ \E i \in DOMAIN call : WorkerStart(i)
    \/ \E i \in DOMAIN call : Iterate(i)
    \/ \E i \in DOMAIN call : Collect(i)
    \/ \E i \in DOMAIN call : CollectException(i)

SpecPool == InitPool /\ [][NextPool]_vars

(***************************************************************************)
(* One call of submit_form(subscriber) with proxy = None, for every item   *)
(* and every plan of what its attempts meet, with its history.             *)
(***************************************************************************)
InitForm ==
    /\ max_threads = 1
    /\ stats = NewStats
    /\ subscribers \in { <<item>> : item \in Items }
    /\ results = <<>>
    /\ pc = "form"
    /\ idx = 1
    /\ call = <<Idle>>
    /\ delays = 0
    /\ endpoint \in [1..MAX_RETRIES -> Meets]
    /\ log = <<>>
    /\ stats_lock = 0
    /\ thread = <<>>
    /\ snapshots = <<>>
    /\ NoManager

FormCall ==
    /\ pc = "form"
    /\ call[1].pc = "idle"
    /\ call' = [call EXCEPT ![1] = SubmitFormEnter(1, subscribers[1])]
    /\ UNCHANGED <<max_threads, stats, subscribers, results, pc, idx, delays,
                   endpoint, log, statsVars, proxyVars, proxy_manager, proxy>>

FormAttempt ==
    /\ pc = "form"
    /\ call[1].pc = "loop"
    /\ LET meets == endpoint[call[1].attempt + 1]
           a == Attempt(call[1], meets.options, meets.post)
       IN  /\ call' = [call EXCEPT ![1] = a.frame]
           /\ log' = log \o a.events
    /\ UNCHANGED <<max_threads, stats, subscribers, results, pc, idx, delays,
                   endpoint, statsVars, proxyVars, proxy_manager, proxy>>

NextForm == FormCall \/ FormAttempt

SpecForm == InitForm /\ [][NextForm]_vars

(***************************************************************************)
(* One call of submit_form with the length of its backoff sleeps.  Every   *)
(* sleep of lines 195, 199 and 204-206 lasts                               *)
(* uniform(RETRY_DELAY_MIN, RETRY_DELAY_MAX) * (attempt + 1); the history  *)
(* holds, with each SLEEP event, the seconds slept (0 with other events),  *)
(* the draw of uniform being any whole number of seconds of the window.    *)
(***************************************************************************)
Backoff_Unscaled(attempt) == RETRY_DELAY_MIN..RETRY_DELAY_MAX

Backoff(attempt) ==
    { draw * (attempt + 1) : draw \in RETRY_DELAY_MIN..RETRY_DELAY_MAX }

BackoffMeets ==
    [options : { Response(204), Raise("Read timed out. (read timeout=30)") },
     post : { Response(st) : st \in {200, 404, 429, 500} }
                \cup { Raise("Read timed out. (read timeout=30)") }]

\* The events of one iteration, its sleep lasting `seconds`.
Timed(events, seconds) ==
    [k \in DOMAIN events |->
        [ev |-> events[k].ev, attempt |-> events[k].attempt,
         raised |-> events[k].raised, status |-> events[k].status,
         delay |-> IF events[k].ev = "SLEEP" THEN seconds ELSE 0]]

InitBackoff ==
    /\ max_threads = 1
    /\ stats = NewStats
    /\ subscribers = <<Subscriber("a@x", "FR", "75001")>>
    /\ results = <<>>
    /\ pc = "form"
    /\ idx = 1
    /\ call = <<Idle>>
    /\ delays = 0
    /\ endpoint \in [1..MAX_RETRIES -> BackoffMeets]
    /\ log = <<>>
    /\ stats_lock = 0
    /\ thread = <<>>
    /\ snapshots = <<>>
    /\ NoManager

BackoffAttempt ==
    /\ pc = "form"
    /\ call[1].pc = "loop"
    /\ LET meets == endpoint[call[1].attempt + 1]
           a == Attempt(call[1], meets.options, meets.post)
       IN  /\ call' = [call EXCEPT ![1] = a.frame]
           /\ \E seconds \in Backoff(call[1].attempt) :
                 log' = log \o Timed(a.events, seconds)
    /\ UNCHANGED <<max_threads, stats, subscribers, results, pc, idx, delays,
                   endpoint, statsVars, proxyVars, proxy_manager, proxy>>

NextBackoff == FormCall \/ BackoffAttempt

SpecBackoff == InitBackoff /\ [][NextBackoff]_vars

(***************************************************************************)
(* The HTTP sessions of the thread-pool path.  Every iteration of the      *)
(* retry loop binds its local variable `session` to a new                  *)
(* requests.Session() (line 138) and sends its two requests on it (lines   *)
(* 141, 171).  log is the list of the Session objects created so far, each *)
(* [created_by, used_by]: the activation that created it and the           *)
(* activations that have sent a request on it; thread[i].session is the    *)
(* local variable of the activation for subscribers[i], a position of log, *)
(* 0 while unbound.                                                        *)
(***************************************************************************)
SessionLists ==
    UNION { [1..n -> { Subscriber("a@x", "FR", "75001") }] : n \in 0..MaxSubscribers }

InitSession ==
    /\ max_threads \in { Max(1, m) : m \in 2..MaxThreads }
    /\ stats = NewStats
    /\ subscribers = <<>>
    /\ results = <<>>
    /\ pc = "idle"
    /\ idx = 1
    /\ call = <<>>
    /\ delays = 0
    /\ endpoint = <<>>
    /\ log = <<>>
    /\ stats_lock = 0
    /\ thread = [i \in 1..MaxSubscribers |-> [session |-> 0]]
    /\ snapshots = <<>>
    /\ NoManager

\* Line 138
NewSession(i) ==
    /\ pc \in {"submit", "collect"}
    /\ call[i].pc = "loop"
    /\ thread[i].session = 0
    /\ log' = Append(log, [created_by |-> i, used_by |-> {}])
    /\ thread' = [thread EXCEPT ![i].session = Len(log) + 1]
    /\ UNCHANGED <<max_threads, stats, subscribers, results, pc, idx, call,
                   delays, endpoint, stats_lock, snapshots, proxyVars,
                   proxy_manager, proxy>>

\* What the requests of this model meet: the pre-flight is answered, the
\* main request is accepted or rate-limited.
SessionMeets == [options : { Response(204) }, post : { Response(200), Response(503) }]

SessionOf_Shared(i) == 1

\* The object the name `session` of lines 141 and 171 refers to.
SessionOf(i) == thread[i].session

\* Lines 141-206: the rest of the iteration, its requests sent on `session`.
SessionSend(i) ==
    /\ pc \in {"submit", "collect"}
    /\ call[i].pc = "loop"
    /\ thread[i].session # 0
    /\ \E f \in { Attempt(call[i], meets.options, meets.post).frame : meets \in SessionMeets } :
          call' = [call EXCEPT ![i] = f]
    /\ log' = [log EXCEPT ![SessionOf(i)].used_by = @ \cup {i}]
    /\ thread' = [thread EXCEPT ![i].session = 0]
    /\ UNCHANGED <<max_threads, stats, subscribers, results, pc, idx, delays,
                   endpoint, stats_lock, snapshots, proxyVars, proxy_manager,
                   proxy>>

NextSession ==
    \/ \E subs \in SessionLists : SubmitBatch(subs)
    \/ PoolSubmit
    \/ \E i \in DOMAIN call : WorkerStart(i)
    \/ \E i \in DOMAIN call : NewSession(i)
    \/ \E i \in DOMAIN call : SessionSend(i)
    \/ \E i \in DOMAIN call : Collect(i)

SpecSession == InitSession /\ [][NextSession]_vars

(***************************************************************************)
(* One call of submit_form with the payload of its main requests (lines    *)
(* 154-168, 171-178).  The history holds, with each POST event, the        *)
(* "consumer" dictionary of the JSON body sent (<<>> with other events).   *)
(* A Subscriber field is a str or None.                                    *)
(***************************************************************************)
\* `value or default` for a value that is a str or None
Or(value, default) == IF value \in {None, ""} THEN default ELSE value

Consumer_OmitEmpty(subscriber) ==
    LET fields == {"consumer_country", "email"}
                     \cup (IF subscriber.postcode \in {None, ""} THEN {} ELSE {"postcode"})
    IN  [k \in fields |->
            IF k = "consumer_country" THEN Or(subscriber.country, "FR")
            ELSE IF k = "email" THEN subscriber.email
            ELSE subscriber.postcode]

\* Lines 158-162
Consumer(subscriber) ==
    [consumer_country |-> Or(subscriber.country, "FR"),
     email |-> subscriber.email,
     postcode |-> Or(subscriber.postcode, "")]

\* The events of one iteration, its main request carrying `consumer`.
WithPayload(events, consumer) ==
    [k \in DOMAIN events |->
        [ev |-> events[k].ev, attempt |-> events[k].attempt,
         raised |-> events[k].raised, status |-> events[k].status,
         json |-> IF events[k].ev = "POST" THEN consumer ELSE <<>>]]

PayloadItems ==
    { Subscriber("a@x", "DE", "10115"), Subscriber("a@x", "", ""),
      Subscriber("a@x", None, None), Subscriber("a@x", "FR", None) }

InitPayload ==
    /\ max_threads = 1
    /\ stats = NewStats
    /\ subscribers \in { <<item>> : item \in PayloadItems }
    /\ results = <<>>
    /\ pc = "form"
    /\ idx = 1
    /\ call = <<Idle>>
    /\ delays = 0
    /\ endpoint \in [1..MAX_RETRIES -> BackoffMeets]
    /\ log = <<>>
    /\ stats_lock = 0
    /\ thread = <<>>
    /\ snapshots = <<>>
    /\ NoManager

PayloadAttempt ==
    /\ pc = "form"
    /\ call[1].pc = "loop"
    /\ LET meets == endpoint[call[1].attempt + 1]
           a == Attempt(call[1], meets.options, meets.post)
       IN  /\ call' = [call EXCEPT ![1] = a.frame]
           /\ log' = log \o WithPayload(a.events, Consumer(subscribers[1]))
    /\ UNCHANGED <<max_threads, stats, subscribers, results, pc, idx, delays,
                   endpoint, statsVars, proxyVars, proxy_manager, proxy>>

NextPayload == FormCall \/ PayloadAttempt

SpecPayload == InitPayload /\ [][NextPayload]_vars

(***************************************************************************)
(* _update_stats and get_stats called from several threads (lines 210-228).*)
(* A thread is [pc, result]:                                               *)
(*   pc      "idle" outside both methods, "acquire" at `with                *)
(*           self._stats_lock` of _update_stats, "total" / "count" /        *)
(*           "errors" before lines 213 / 214-217 / 218-223, "release" at    *)
(*           the end of the with block;                                    *)
(*   result  the argument of _update_stats.                                *)
(* get_stats returns self.stats.copy(): a new dictionary that holds the    *)
(* three counters by value and, under "errors", the very defaultdict of    *)
(* self.stats.  A snapshot is [copy, seen]: the returned dictionary, its   *)
(* "errors" entry being the reference LiveErrors, and what its reader saw  *)
(* in it when get_stats returned.                                          *)
(***************************************************************************)
Callers == 1..MaxCallers

IdleThread == [pc |-> "idle", result |-> SubmissionResult(0, FALSE)]

Failure(text) == [SubmissionResult(0, FALSE) EXCEPT !.error_message = text]

StatsResults ==
    { SubmissionResult(0, TRUE), Failure("HTTP 429: "), Failure("Subscriber is None") }

LiveErrors == "self.stats['errors']"

\* dict.copy(): the values of the new dictionary are the objects of the old
ShallowCopy(st) == [st EXCEPT !.errors = LiveErrors]

\* What a reader of the returned dictionary finds in it now.
Read(copy) ==
    [copy EXCEPT !.errors = IF @ = LiveErrors THEN stats.errors ELSE @]

LockFree_Always == TRUE

LockFree == stats_lock = 0

InitStats ==
    /\ max_threads = 1
    /\ stats = NewStats
    /\ subscribers = <<>>
    /\ results = <<>>
    /\ pc = "stats"
    /\ idx = 1
    /\ call = <<>>
    /\ delays = 0
    /\ endpoint = <<>>
    /\ log = <<>>
    /\ stats_lock = 0
    /\ thread = [t \in Callers |-> IdleThread]
    /\ snapshots = <<>>
    /\ NoManager

batchVars ==
    <<max_threads, subscribers, results, pc, idx, call, delays, endpoint, log,
      proxy_manager, proxy>>

InUpdate == { t \in DOMAIN thread : thread[t].pc # "idle" }

\* Line 210: a thread calls _update_stats(result).
CallUpdateStats(t, result) ==
    /\ thread[t].pc = "idle"
    /\ stats.total + Cardinality(InUpdate) < MaxUpdates
    /\ thread' = [thread EXCEPT ![t] = [pc |-> "acquire", result |-> result]]
    /\ UNCHANGED <<stats, stats_lock, snapshots, batchVars, proxyVars>>

\* Line 212: with self._stats_lock
Acquire(t) ==
    /\ thread[t].pc = "acquire"
    /\ LockFree
    /\ stats_lock' = t
    /\ thread' = [thread EXCEPT ![t].pc = "total"]
    /\ UNCHANGED <<stats, snapshots, batchVars, proxyVars>>

\* Line 213
AddTotal(t) ==
    /\ thread[t].pc = "total"
    /\ stats' = [stats EXCEPT !.total = @ + 1]
    /\ thread' = [thread EXCEPT ![t].pc = "count"]
    /\ UNCHANGED <<stats_lock, snapshots, batchVars, proxyVars>>

\* Lines 214-217
AddOutcome(t) ==
    /\ thread[t].pc = "count"
    /\ IF thread[t].result.success
       THEN /\ stats' = [stats EXCEPT !.success = @ + 1]
            /\ thread' = [thread EXCEPT ![t].pc = "release"]
       ELSE /\ stats' = [stats EXCEPT !.failure = @ + 1]
            /\ thread' = [thread EXCEPT ![t].pc = "errors"]
    /\ UNCHANGED <<stats_lock, snapshots, batchVars, proxyVars>>

\* Lines 218-223
AddError(t) ==
    /\ thread[t].pc = "errors"
    /\ stats' = [stats EXCEPT !.errors = Increment(@, ErrorKey(thread[t].result))]
    /\ thread' = [thread EXCEPT ![t].pc = "release"]
    /\ UNCHANGED <<stats_lock, snapshots, batchVars, proxyVars>>

\* The end of the with block of _update_stats.
Release(t) ==
    /\ thread[t].pc = "release"
    /\ stats_lock' = 0
    /\ thread' = [thread EXCEPT ![t] = IdleThread]
    /\ UNCHANGED <<stats, snapshots, batchVars, proxyVars>>

\* Lines 225-228: get_stats takes the lock, copies and returns.
GetStats(t) ==
    /\ thread[t].pc = "idle"
    /\ LockFree
    /\ Len(snapshots) < MaxSnapshots
    /\ snapshots' = Append(snapshots, [copy |-> ShallowCopy(stats), seen |-> stats])
    /\ UNCHANGED <<stats, stats_lock, thread, batchVars, proxyVars>>

NextStats ==
    \/ \E t \in Callers, result \in StatsResults : CallUpdateStats(t, result)
    \/ \E t \in Callers : Acquire(t)
    \/ \E t \in Callers : AddTotal(t)
    \/ \E t \in Callers : AddOutcome(t)
    \/ \E t \in Callers : AddError(t)
    \/ \E t \in Callers : Release(t)
    \/ \E t \in Callers : GetStats(t)

SpecStats == InitStats /\ [][NextStats]_vars

(***************************************************************************)
(* _update_stats called by one thread, result after result, for failed     *)
(* results of every kind of error text (lines 210-223).  thread[1].result  *)
(* is the argument of the latest call.                                     *)
(***************************************************************************)
ErrorTexts ==
    { None, "", "HTTP 429: ", "HTTP 429: 403", "HTTP 403: ", "HTTP 403: timeout",
      "HTTP 404: ", "Read timed out. (read timeout=30)", "ConnectTimeout",
      "Connection timeout", "Connection aborted.", "Subscriber is None",
      "'object' object has no attribute 'email'" }

KeyResults == { SubmissionResult(0, TRUE) } \cup { Failure(text) : text \in ErrorTexts }

InitKeys ==
    /\ max_threads = 1
    /\ stats = NewStats
    /\ subscribers = <<>>
    /\ results = <<>>
    /\ pc = "keys"
    /\ idx = 1
    /\ call = <<>>
    /\ delays = 0
    /\ endpoint = <<>>
    /\ log = <<>>
    /\ stats_lock = 0
    /\ thread = <<IdleThread>>
    /\ snapshots = <<>>
    /\ NoManager

\* Lines 210-223, the caller being alone.
RecordResult(result) ==
    /\ pc = "keys"
    /\ stats.total < MaxUpdates
    /\ stats' = UpdateStats(stats, result)
    /\ thread' = <<[pc |-> "idle", result |-> result]>>
    /\ UNCHANGED <<stats_lock, snapshots, batchVars, proxyVars>>

NextKeys == \E result \in KeyResults : RecordResult(result)

SpecKeys == InitKeys /\ [][NextKeys]_vars

(***************************************************************************)
(* A ProxyManager used by one thread: the constructor (lines 42-49), then  *)
(* load_proxies and get_next_proxy calls in any order.  thread[1] holds    *)
(* the argument and the value of the latest get_next_proxy call; pc is     *)
(* "proxy", and "raised" once a call has raised.                           *)
(***************************************************************************)
Strategies == { "random", "round_robin", "country_match", "sticky" }

CountryCodes == { None, "", "FR", "DE" }

ProxyFiles ==
    { NoFile,
      File(TRUE, <<"badline">>),
      File(TRUE, <<"h1:80:u:p_country-FR">>),
      File(TRUE, <<"h1:80:u:p_country-FR", "h2:80:u:p_country-US_session-s1">>),
      File(TRUE, <<" h3:80:u:p ", "h2:80:u:p_country-US_session-s1">>) }

\* A load without `self.proxies = []` (line 57): the proxies of the file
\* join the ones already in the pool.
LoadedPool_Append(file, old) ==
    IF file.readable THEN old \o ParseAll(ProxyLines(file.lines)) ELSE old

\* load_proxies (lines 51-70): the pool after the call.  When open() raises,
\* the outer except logs the error and the pool stays as it was.
LoadedPool(file, old) ==
    IF file.readable THEN ParseAll(ProxyLines(file.lines)) ELSE old

IdleCaller == [pc |-> "idle", country_code |-> None, proxy |-> NoProxy]

\* ProxyManager(proxy_file, rotation_strategy)
NewManager(file, strategy) ==
    /\ proxies = LoadedPool(file, <<>>)
    /\ rotation_strategy = strategy
    /\ current_proxy_index = 0
    /\ source = file
    /\ returned = <<>>

NoBatch ==
    /\ max_threads = 1
    /\ stats = NewStats
    /\ subscribers = <<>>
    /\ results = <<>>
    /\ idx = 1
    /\ call = <<>>
    /\ delays = 0
    /\ endpoint = <<>>
    /\ log = <<>>
    /\ stats_lock = 0
    /\ snapshots = <<>>
    /\ proxy_manager = FALSE
    /\ proxy = <<>>

InitProxy ==
    /\ NoBatch
    /\ pc = "proxy"
    /\ thread = <<IdleCaller>>
    /\ \E file \in ProxyFiles, strategy \in Strategies : NewManager(file, strategy)

managerUser == <<stats, statsVars, batchVars>>

\* load_proxies(proxy_file)
LoadProxies(file) ==
    /\ pc \in {"proxy", "load"}
    /\ proxies' = LoadedPool(file, proxies)
    /\ source' = file
    /\ returned' = <<>>
    /\ UNCHANGED <<rotation_strategy, current_proxy_index, managerUser>>

\* get_next_proxy(country_code)
CallGetNextProxy(country_code) ==
    /\ pc = "proxy"
    /\ Len(returned) < MaxCalls
    /\ \E o \in GetNextProxy(proxies, rotation_strategy, current_proxy_index,
                              country_code) :
          /\ current_proxy_index' = o.index
          /\ IF o.raised
             THEN /\ pc' = "raised"
                  /\ UNCHANGED <<returned, thread>>
             ELSE /\ pc' = pc
                  /\ returned' = Append(returned, o.proxy)
                  /\ thread' = <<[pc |-> "idle", country_code |-> country_code,
                                  proxy |-> o.proxy]>>
    /\ UNCHANGED <<max_threads, stats, subscribers, results, idx, call, delays,
                   endpoint, log, stats_lock, snapshots, proxies,
                   rotation_strategy, source, proxy_manager, proxy>>

NextProxy ==
    \/ \E file \in ProxyFiles : LoadProxies(file)
    \/ \E country_code \in CountryCodes : CallGetNextProxy(country_code)

SpecProxy == InitProxy /\ [][NextProxy]_vars

(***************************************************************************)
(* submit_batch of a BatchSubmitter that has a proxy manager.  No element  *)
(* reaches submit_form unless reading its .country succeeded, so           *)
(* submit_form never raises here and the two except branches of            *)
(* submit_batch are not among the steps.                                   *)
(***************************************************************************)
ProxiedItems ==
    { Subscriber("a@x", "FR", "75001"), Subscriber("b@x", "", ""), NoneItem }

\* The proxy files of the managers handed to a BatchSubmitter: one that
\* gives an empty pool, one that gives two proxies.
ProxiedFiles ==
    { File(TRUE, <<"badline">>),
      File(TRUE, <<"h1:80:u:p_country-FR", "h2:80:u:p_country-US_session-s1">>) }

ProxiedLists == UNION { [1..n -> ProxiedItems] : n \in 0..MaxSubscribers }

InitProxied ==
    /\ max_threads \in { Max(1, m) : m \in 0..MaxThreads }
    /\ stats = NewStats
    /\ subscribers = <<>>
    /\ results = <<>>
    /\ pc = "idle"
    /\ idx = 1
    /\ call = <<>>
    /\ delays = 0
    /\ endpoint = <<>>
    /\ log = <<>>
    /\ stats_lock = 0
    /\ thread = <<>>
    /\ snapshots = <<>>
    /\ proxy_manager = TRUE
    /\ proxy = <<>>
    /\ \E file \in ProxiedFiles, strategy \in Strategies : NewManager(file, strategy)

NextProxied ==
    \/ \E subs \in ProxiedLists : SubmitBatch(subs)
    \/ SeqCall
    \/ SeqReturn
    \/ PoolSubmit
    \/ \E i \in DOMAIN call : WorkerStart(i)
    \/ \E i \in DOMAIN call : Iterate(i)
    \/ \E i \in DOMAIN call : Collect(i)

SpecProxied == InitProxied /\ [][NextProxied]_vars

(***************************************************************************)
(* get_next_proxy of a round_robin ProxyManager called by several threads  *)
(* (lines 132-141, 153-163).  The manager has no lock, so the threads      *)
(* interleave between the statements of _get_round_robin_proxy and         *)
(* between the read and the write of current_proxy_index in line 163.      *)
(* A thread is [pc, picked, next]:                                         *)
(*   pc      "idle" outside get_next_proxy, "pick" before line 160,        *)
(*           "read" before line 163 reads the index, "write" before it     *)
(*           stores the new one;                                           *)
(*   picked  the local variable proxy;  next  the value to be stored.      *)
(***************************************************************************)
RotationFiles ==
    { File(TRUE, <<"h1:80:u:p_country-FR">>),
      File(TRUE, <<"h1:80:u:p_country-FR", "h2:80:u:p_country-US_session-s1">>),
      File(TRUE, <<"h1:80:u:p_country-FR", "h2:80:u:p_country-US_session-s1",
                   " h3:80:u:p ">>) }

IdleRotation == [pc |-> "idle", picked |-> NoProxy, next |-> 0]

InitRotation ==
    /\ NoBatch
    /\ pc = "rotate"
    /\ thread = [t \in Callers |-> IdleRotation]
    /\ \E file \in RotationFiles : NewManager(file, "round_robin")

InCall == { t \in DOMAIN thread : thread[t].pc # "idle" }

\* Lines 132-141, 153-157: the call reaches line 160, the pool not being
\* empty.
RotationCall(t) ==
    /\ pc = "rotate"
    /\ thread[t].pc = "idle"
    /\ Len(returned) + Cardinality(InCall) < MaxCalls
    /\ thread' = [thread EXCEPT ![t].pc = "pick"]
    /\ UNCHANGED <<stats, stats_lock, snapshots, batchVars, proxyVars>>

\* Line 160
RotationPick(t) ==
    /\ thread[t].pc = "pick"
    /\ thread' = [thread EXCEPT ![t].pc = "read",
                                ![t].picked = Some(proxies[current_proxy_index + 1])]
    /\ UNCHANGED <<stats, stats_lock, snapshots, batchVars, proxyVars>>

\* Line 163, right-hand side
RotationRead(t) ==
    /\ thread[t].pc = "read"
    /\ thread' = [thread EXCEPT ![t].pc = "write",
                                ![t].next = (current_proxy_index + 1) % Len(proxies)]
    /\ UNCHANGED <<stats, stats_lock, snapshots, batchVars, proxyVars>>

\* Line 163, the assignment; the method ends and get_next_proxy returns its
\* value, None.
RotationWrite(t) ==
    /\ thread[t].pc = "write"
    /\ current_proxy_index' = thread[t].next
    /\ returned' = Append(returned, NoProxy)
    /\ thread' = [thread EXCEPT ![t] = IdleRotation]
    /\ UNCHANGED <<stats, stats_lock, snapshots, batchVars, proxies,
                   rotation_strategy, source>>

NextRotation ==
    \/ \E t \in Callers : RotationCall(t)
    \/ \E t \in Callers : RotationPick(t)
    \/ \E t \in Callers : RotationRead(t)
    \/ \E t \in Callers : RotationWrite(t)

SpecRotation == InitRotation /\ [][NextRotation]_vars

(***************************************************************************)
(* load_proxies on its own (lines 51-108): a ProxyManager built without a  *)
(* file loads, one after another, files of up to MaxLines lines, well      *)
(* formed, malformed and blank, and files that cannot be opened.           *)
(***************************************************************************)
Lines ==
    { "h2:80:u:p_country-US_session-s1", " h3:80:u:p ", "badline", "h1:8x:u:p", "" }

Files ==
    { NoFile } \cup
    { File(TRUE, lines) : lines \in UNION { [1..n -> Lines] : n \in 0..MaxLines } }

InitLoad ==
    /\ NoBatch
    /\ pc = "load"
    /\ thread = <<>>
    /\ NewManager(NoFile, "random")

NextLoad == \E file \in Files : LoadProxies(file)

SpecLoad == InitLoad /\ [][NextLoad]_vars

(***************************************************************************)
(* main of src/umg_form_submitter/main.py (lines 98-155) with              *)
(* load_subscribers (lines 53-96).                                         *)
(*   pc  "main" at the start, "loaded" after load_subscribers, "idle"      *)
(*       when the ProxyManager and the BatchSubmitter are built, then the  *)
(*       values of submit_batch; "exit0" / "exit1" when the process has    *)
(*       ended with that exit status.                                      *)
(* AppConfig() gives max_threads = 1 and proxy_rotation = "round_robin"    *)
(* (config.py lines 34, 42, 46), and main sets use_proxies = True.         *)
(* A row of the subscriber file holds its values stripped and in upper     *)
(* case; a value is None when the row is shorter than the header.          *)
(***************************************************************************)
Row(email, country, postcode) ==
    [email |-> email, country |-> country, postcode |-> postcode]

Rows ==
    { Row("a@x", "FR", "75001"), Row("b@x", "", "75001"), Row("a.x", "FR", "75001"),
      Row("a@x", "FR", ""), Row("a@x", None, None) }

CsvFiles ==
    { File(FALSE, <<>>) } \cup
    { File(TRUE, rows) : rows \in UNION { [1..n -> Rows] : n \in 0..MaxRows } }

\* Lines 72, 75-76: row.get(...).strip() raises on a None value.
RowRaises(row) == None \in { row.email, row.country, row.postcode }

\* Lines 80-87: the email and postcode validation.
RowIsValid(row) ==
    /\ row.email # ""
    /\ Contains(<<"@">>, Chars(row.email))
    /\ row.postcode # ""

\* Lines 71-77
SubscriberOfRow(row) ==
    Subscriber(row.email, IF row.country = "" THEN "US" ELSE row.country,
               row.postcode)

\* Lines 55-90: the list built from the rows.
RECURSIVE LoadedSubscribers(_)
LoadedSubscribers(rows) ==
    IF rows = <<>> THEN <<>>
    ELSE (IF RowIsValid(Head(rows)) THEN <<SubscriberOfRow(Head(rows))>> ELSE <<>>)
            \o LoadedSubscribers(Tail(rows))

MainProxyFiles == { NoFile } \cup ProxiedFiles

InitMain ==
    /\ max_threads = 1
    /\ stats = NewStats
    /\ subscribers = <<>>
    /\ results = <<>>
    /\ pc = "main"
    /\ idx = 1
    /\ call = <<>>
    /\ delays = 0
    /\ endpoint = <<>>
    /\ log = <<>>
    /\ stats_lock = 0
    /\ thread = <<>>
    /\ snapshots = <<>>
    /\ NoManager

\* Line 116 and load_subscribers: an exception while reading (the file
\* cannot be opened, a row raises) ends the process with sys.exit(1).
MainLoadSubscribers(csv) ==
    /\ pc = "main"
    /\ IF ~csv.readable \/ \E k \in DOMAIN csv.lines : RowRaises(csv.lines[k])
       THEN /\ pc' = "exit1"
            /\ UNCHANGED subscribers
       ELSE /\ pc' = "loaded"
            /\ subscribers' = LoadedSubscribers(csv.lines)
    /\ UNCHANGED <<max_threads, stats, results, idx, call, delays, endpoint,
                   log, statsVars, proxyVars, proxy_manager, proxy>>

\* Lines 120-132: the ProxyManager and the BatchSubmitter are built.
MainInit(file) ==
    /\ pc = "loaded"
    /\ proxies' = LoadedPool(file, <<>>)
    /\ rotation_strategy' = "round_robin"
    /\ current_proxy_index' = 0
    /\ source' = file
    /\ returned' = <<>>
    /\ proxy_manager' = TRUE
    /\ max_threads' = Max(1, 1)
    /\ stats' = NewStats
    /\ pc' = "idle"
    /\ UNCHANGED <<subscribers, results, idx, call, delays, endpoint, log,
                   statsVars, proxy>>

\* Lines 140-155: submit_batch has returned; main logs the statistics and
\* returns, and the process ends with status 0.
MainReturn ==
    /\ pc = "done"
    /\ pc' = "exit0"
    /\ UNCHANGED <<max_threads, stats, subscribers, results, idx, call, delays,
                   endpoint, log, statsVars, proxyVars, proxy_manager, proxy>>

\* Line 137 is SubmitBatch(subscribers); max_threads is 1 and the records
\* are Subscribers, so the batch takes the sequential path and submit_form
\* does not raise.
NextMain ==
    \/ \E csv \in CsvFiles : MainLoadSubscribers(csv)
    \/ \E file \in MainProxyFiles : MainInit(file)
    \/ SubmitBatch(subscribers)
    \/ SeqCall
    \/ SeqReturn
    \/ \E i \in DOMAIN call : Iterate(i)
    \/ MainReturn

SpecMain == InitMain /\ [][NextMain]_vars

(***************************************************************************)
(* The BatchSubmitter of src/umg_form_submitter/form_handler.py.  Its      *)
(* submit_form and _update_stats keep the error text in an attribute       *)
(* `error` that they add to the SubmissionResult; the field error_message  *)
(* of the dataclass is never written.  Its session is made once for the    *)
(* call (line 173), not once for each attempt, and its headers are the     *)
(* same names and values in the same order.                                *)
(***************************************************************************)

\* result.error = text: the attribute is created by the first assignment.
SetError(result, text) ==
    [a \in (DOMAIN result) \cup {"error"} |->
        IF a = "error" THEN text ELSE result[a]]

\* Lines 152-169
UmgSubmitFormEnter(i, subscriber) ==
    IF subscriber.type = "NoneType"
    THEN [Idle EXCEPT !.pc = "return",
                      !.result = SetError(SubmissionResult(0, FALSE),
                                          "Subscriber is None")]
    ELSE IF subscriber.type # "Subscriber"
    THEN [Idle EXCEPT !.pc = "raised",
                      !.exc = "'object' object has no attribute 'email'"]
    ELSE [Idle EXCEPT !.pc = "loop", !.result = SubmissionResult(i, FALSE)]

\* Lines 229-257: the main request got a response.
UmgOnResponse(f, status, sent) ==
    IF status \in {200, 201}
    THEN [frame |-> [f EXCEPT !.result.success = TRUE,
                              !.result.response_data = "payload",
                              !.pc = "return"],
          events |-> sent]
    ELSE LET g == [f EXCEPT !.result = SetError(f.result, HttpError(status))]
         IN  IF status \in {429, 503}
             THEN [frame |-> NextAttempt(g),
                   events |-> Append(sent, Sleep(f.attempt))]
             ELSE IF status >= 400 /\ status < 500
             THEN [frame |-> [g EXCEPT !.pc = "return"], events |-> sent]
             ELSE [frame |-> NextAttempt(g),
                   events |-> Append(sent, Sleep(f.attempt))]

\* Lines 259-267: a request of the iteration raised.
UmgOnException(f, text, sent) ==
    [frame |-> NextAttempt([f EXCEPT !.result = SetError(f.result, text)]),
     events |-> IF f.attempt < MAX_RETRIES - 1
                THEN Append(sent, Sleep(f.attempt))
                ELSE sent]

\* Lines 180-267: one iteration of the retry loop.
UmgAttempt(f, options, post) ==
    LET preflight == <<Event("OPTIONS", f.attempt, options)>>
        sent == preflight \o <<Pause(f.attempt), Event("POST", f.attempt, post)>>
    IN  IF options.raised
        THEN UmgOnException(f, options.text, preflight)
        ELSE IF post.raised
        THEN UmgOnException(f, post.text, sent)
        ELSE UmgOnResponse(f, post.status, sent)

\* A category read from error_message, which this submit_form never sets.
UmgErrorKey_FromErrorMessage(result) ==
    IF IsTruthy(result.error_message) THEN ErrorKey(result) ELSE "unknown"

\* Lines 282-294: hasattr(result, 'error') and result.error, then the same
\* tests on the text.
UmgErrorKey(result) ==
    IF "error" \in DOMAIN result /\ IsTruthy(result.error)
    THEN LET err == Chars(result.error)
         IN  IF Contains(<<"4", "2", "9">>, err) THEN "rate_limit"
             ELSE IF Contains(<<"4", "0", "3">>, err) THEN "forbidden"
             ELSE IF Contains(Chars("timeout"), Lower(err)) THEN "timeout"
             ELSE IF Contains(Chars("connection"), Lower(err)) THEN "connection"
             ELSE Str(Prefix(err, 30))
    ELSE "unknown"

\* Lines 271-296
UmgUpdateStats(st, result) ==
    IF result.success
    THEN [st EXCEPT !.total = @ + 1, !.success = @ + 1]
    ELSE [st EXCEPT !.total = @ + 1, !.failure = @ + 1,
                    !.errors = Increment(st.errors, UmgErrorKey(result))]

(***************************************************************************)
(* The two BatchSubmitters side by side, without proxy manager and with    *)
(* max_threads = 1, on the same list of records and the same endpoint:     *)
(* both take up the same record, each attempt of the one and of the other  *)
(* meets the same outcome, and each adds its result to its own list and    *)
(* its own stats.  stats, results, call and log hold one value for each    *)
(* implementation; log is the history of the record at hand.               *)
(***************************************************************************)
Impl == { "src", "umg" }

EquivMeets ==
    [options : { Response(204), Raise("Read timed out. (read timeout=30)") },
     post : { Response(200), Response(403), Response(429), Response(500),
              Raise("Read timed out. (read timeout=30)") }]

InitEquiv ==
    /\ max_threads = 1
    /\ stats = [m \in Impl |-> NewStats]
    /\ subscribers \in UNION { [1..n -> Items] : n \in 1..MaxSubscribers }
    /\ results = [m \in Impl |-> <<>>]
    /\ pc = "seq"
    /\ idx = 1
    /\ call = [m \in Impl |-> Idle]
    /\ delays = 0
    /\ endpoint = <<>>
    /\ log = [m \in Impl |-> <<>>]
    /\ stats_lock = 0
    /\ thread = <<>>
    /\ snapshots = <<>>
    /\ NoManager

\* Both loops call submit_form for subscribers[idx].
EquivCall ==
    /\ pc = "seq"
    /\ \A m \in Impl : call[m].pc = "idle"
    /\ call' = [src |-> SubmitFormEnter(idx, subscribers[idx]),
                umg |-> UmgSubmitFormEnter(idx, subscribers[idx])]
    /\ log' = [m \in Impl |-> <<>>]
    /\ UNCHANGED <<max_threads, stats, subscribers, results, pc, idx, delays,
                   endpoint, statsVars, proxyVars, proxy_manager, proxy>>

\* The implementations that are in their retry loop make their next
\* attempt, which meets the same outcome for both.
EquivAttempt ==
    /\ pc = "seq"
    /\ \E m \in Impl : call[m].pc = "loop"
    /\ \E meets \in EquivMeets :
          LET a == [src |-> Attempt(call["src"], meets.options, meets.post),
                    umg |-> UmgAttempt(call["umg"], meets.options, meets.post)]
              Acts(m) == call[m].pc = "loop"
          IN  /\ call' = [m \in Impl |-> IF Acts(m) THEN a[m].frame ELSE call[m]]
              /\ log' = [m \in Impl |-> IF Acts(m) THEN log[m] \o a[m].events
                                        ELSE log[m]]
    /\ UNCHANGED <<max_threads, stats, subscribers, results, pc, idx, delays,
                   endpoint, statsVars, proxyVars, proxy_manager, proxy>>

\* What the sequential loop adds to its list for an activation that has
\* returned or raised (src lines 101-109, umg lines 134-143).
EquivResult(m, f) ==
    IF f.pc = "return" THEN f.result
    ELSE IF m = "src"
    THEN [SubmissionResult(idx, FALSE) EXCEPT !.error_message = f.exc]
    ELSE SetError(SubmissionResult(idx, FALSE), f.exc)

\* Both submit_form calls are over: each loop appends the result, updates
\* its stats, sleeps unless the record equals the last one, and goes on.
EquivAdvance ==
    /\ pc = "seq"
    /\ \A m \in Impl : call[m].pc \in {"return", "raised"}
    /\ results' = [m \in Impl |-> Append(results[m], EquivResult(m, call[m]))]
    /\ stats' = [src |-> UpdateStats(stats["src"], EquivResult("src", call["src"])),
                 umg |-> UmgUpdateStats(stats["umg"], EquivResult("umg", call["umg"]))]
    /\ delays' = IF subscribers[idx] # subscribers[Len(subscribers)]
                 THEN delays + 1 ELSE delays
    /\ call' = [m \in Impl |-> Idle]
    /\ idx' = idx + 1
    /\ pc' = IF idx = Len(subscribers) THEN "done" ELSE "seq"
    /\ UNCHANGED <<max_threads, subscribers, endpoint, log, statsVars,
                   proxyVars, proxy_manager, proxy>>

NextEquiv == EquivCall \/ EquivAttempt \/ EquivAdvance

SpecEquiv == InitEquiv /\ [][NextEquiv]_vars

(***************************************************************************)
(* Properties.                                                             *)
(***************************************************************************)

\* What the history says of the one call of SpecForm.
AttemptsMade == Cardinality({ p \in DOMAIN log : log[p].ev = "OPTIONS" })

MainRequests == { p \in DOMAIN log : log[p].ev = "POST" }

Answered(p, statuses) ==
    log[p].ev = "POST" /\ ~log[p].raised /\ log[p].status \in statuses

Returned == call[1].pc = "return"

\* The attempt gets an answer to its main request.
Answers(meets, statuses) ==
    ~meets.options.raised /\ ~meets.post.raised /\ meets.post.status \in statuses

\* C1: when submit_batch has returned, the list it returns holds exactly one
\* result for every input record and nothing else, on the sequential and on
\* the thread-pool path, whether submit_form returned or raised.  (The result
\* of a None record refers to the empty Subscriber, reference 0.)
C1_OneResultPerRecord ==
    pc = "done" =>
        /\ Len(results) = Len(subscribers)
        /\ \A i \in DOMAIN subscribers :
              subscribers[i].type # "NoneType" =>
                 Cardinality({ j \in DOMAIN results : results[j].subscriber = i }) = 1
        /\ Cardinality({ j \in DOMAIN results : results[j].subscriber = 0 })
              = Cardinality({ i \in DOMAIN subscribers : subscribers[i].type = "NoneType" })

\* C2: when submit_batch has returned, every record whose submit_form call
\* raised has a result with success = false in the list, every other record
\* has its result too, and the stats count every failed result of the list.
C2_ExceptionBecomesFailure ==
    pc = "done" =>
        /\ \A i \in DOMAIN subscribers :
              subscribers[i].type = "object" =>
                 \E j \in DOMAIN results :
                    results[j].subscriber = i /\ ~results[j].success
        /\ \A i \in DOMAIN subscribers :
              subscribers[i].type = "Subscriber" =>
                 \E j \in DOMAIN results : results[j].subscriber = i
        /\ stats.failure = Cardinality({ j \in DOMAIN results : ~results[j].success })
        /\ stats.failure >=
              Cardinality({ i \in DOMAIN subscribers : subscribers[i].type = "object" })

\* C3: a result that submit_form returns with success = true has no error
\* description, also when earlier attempts of the call failed.
C3_SuccessHasNoError ==
    (Returned /\ call[1].result.success) => call[1].result.error_message = None

\* C4: the attempts field of every result in the list of submit_batch is
\* between 1 and MAX_RETRIES (stated for the results of Subscriber records,
\* the ones submit_form makes attempts for).
C4_AttemptsWithinBudget ==
    \A j \in DOMAIN results :
        results[j].subscriber # 0 =>
           1 <= results[j].attempts /\ results[j].attempts <= MAX_RETRIES

\* C5: the attempts field of the result submit_form returns is the number of
\* attempts the call made (3 after 429, 429, 200; 1 after a 404).
C5_AttemptsFieldCountsAttempts ==
    Returned => call[1].result.attempts = AttemptsMade

\* C6: if the endpoint answers 429 or 503 on attempts 1..k-1 and 200 or 201
\* on attempt k <= MAX_RETRIES, submit_form returns success = true having
\* sent exactly k main requests.
C6_TransientIsRetried ==
    \A k \in 1..MAX_RETRIES :
        ( /\ Returned
          /\ subscribers[1].type = "Subscriber"
          /\ \A j \in 1..(k - 1) : Answers(endpoint[j], {429, 503})
          /\ Answers(endpoint[k], {200, 201}) )
        => /\ call[1].result.success
           /\ Cardinality(MainRequests) = k

C6_Witness ==
    /\ Returned
    /\ Answers(endpoint[1], {429})
    /\ Answers(endpoint[2], {503})
    /\ Answers(endpoint[3], {201})
    /\ call[1].result.success
    /\ Cardinality(MainRequests) = 3

\* C7: a main request answered with a status in [400,500) other than 429 is
\* the last thing submit_form does, on whichever attempt: nothing is sent or
\* slept after it, and the call has returned a failure.
C7_ClientErrorReturnsAtOnce ==
    \A p \in DOMAIN log :
        ( /\ log[p].ev = "POST" /\ ~log[p].raised
          /\ 400 <= log[p].status /\ log[p].status < 500
          /\ log[p].status # 429 )
        => /\ p = Len(log)
           /\ Returned
           /\ ~call[1].result.success

C7_Witness ==
    /\ Returned
    /\ Len(log) > 0
    /\ Answered(Len(log), {403})
    /\ log[Len(log)].attempt = 2
    /\ ~call[1].result.success

\* C8: submit_form returns success = true exactly when one of its main
\* requests was answered 200 or 201, and that request is the last thing the
\* call does: it has returned, with the payload captured.
C8_SuccessIsLastRequest ==
    /\ Returned =>
          (call[1].result.success <=>
              \E p \in DOMAIN log : Answered(p, {200, 201}))
    /\ \A p \in DOMAIN log :
          Answered(p, {200, 201}) =>
             /\ p = Len(log)
             /\ Returned
             /\ call[1].result.response_data # None

C8_Witness ==
    /\ Returned
    /\ call[1].result.success
    /\ Len(log) > 0
    /\ Answered(Len(log), {201})
    /\ log[Len(log)].attempt = 1

\* An attempt that ends in a transient status, in another non-success status
\* outside [400,500), or in a transport failure.
EndsRetryable(meets) ==
    \/ meets.options.raised
    \/ meets.post.raised
    \/ meets.post.status \in {429, 503}
    \/ /\ meets.post.status \notin {200, 201}
       /\ ~(400 <= meets.post.status /\ meets.post.status < 500)

\* The error description an attempt leaves.
Observed(meets) ==
    IF meets.options.raised THEN meets.options.text
    ELSE IF meets.post.raised THEN meets.post.text
    ELSE HttpError(meets.post.status)

\* C9: submit_form never makes more than MAX_RETRIES attempts and has
\* returned once it made them; when every attempt ends retryable it makes
\* exactly MAX_RETRIES attempts and returns a failure that carries the error
\* of the last attempt.
C9_RetriesAreBounded ==
    /\ AttemptsMade <= MAX_RETRIES
    /\ AttemptsMade = MAX_RETRIES => Returned
    /\ ( /\ Returned
         /\ subscribers[1].type = "Subscriber"
         /\ \A j \in 1..MAX_RETRIES : EndsRetryable(endpoint[j]) )
       => /\ AttemptsMade = MAX_RETRIES
          /\ ~call[1].result.success
          /\ call[1].result.error_message = Observed(endpoint[MAX_RETRIES])

C9_Witness ==
    /\ Returned
    /\ Answers(endpoint[1], {429})
    /\ Answers(endpoint[2], {500})
    /\ endpoint[3].options.raised
    /\ AttemptsMade = MAX_RETRIES
    /\ ~call[1].result.success
    /\ call[1].result.error_message = "Read timed out. (read timeout=30)"

\* C10: every attempt whose pre-flight was sent also sends its main request,
\* whatever became of the pre-flight.
C10_PreflightFailureKeepsAttempt ==
    \A p \in DOMAIN log :
        log[p].ev = "OPTIONS" =>
           \E q \in DOMAIN log :
              q > p /\ log[q].ev = "POST" /\ log[q].attempt = log[p].attempt

\* C11: with max_threads = 1, a batch of N Subscriber records that has
\* returned has slept exactly N - 1 inter-submission delays (one between every
\* two consecutive submissions, none after the last), also when an earlier
\* record is equal to the last one.
C11_OneDelayBetweenSubmissions ==
    ( /\ pc = "done"
      /\ max_threads = 1
      /\ Len(subscribers) > 0
      /\ \A i \in DOMAIN subscribers : subscribers[i].type = "Subscriber" )
        => delays = Len(subscribers) - 1

\* C12: with max_threads > 1, never more than max_threads executions of
\* submit_form are in flight at once, and the thread-pool path sleeps no
\* inter-submission delay.
C12_InFlightWithinPool ==
    max_threads > 1 =>
        /\ Cardinality({ i \in DOMAIN call : call[i].pc = "loop" }) <= max_threads
        /\ delays = 0

\* Every worker is busy while a further task waits in the executor's queue.
C12_Witness ==
    /\ max_threads > 1
    /\ Cardinality({ i \in DOMAIN call : call[i].pc = "loop" }) = max_threads
    /\ \E i \in DOMAIN call : call[i].pc = "queued"

\* C13: in every dictionary get_stats has returned, success + failure equals
\* total, whatever the interleaving of the _update_stats calls.
C13_SnapshotCountersAddUp ==
    \A k \in DOMAIN snapshots :
        snapshots[k].copy.success + snapshots[k].copy.failure
            = snapshots[k].copy.total

\* get_stats has returned between two _update_stats calls of different
\* threads, the second of which is waiting for or holding the lock.
C13_Witness ==
    /\ \E k \in DOMAIN snapshots : snapshots[k].copy.total = 1
    /\ \E t \in DOMAIN thread : thread[t].pc \in {"acquire", "total", "count"}

\* C14: a dictionary returned by get_stats keeps showing what it showed when
\* it was returned (counters and per-category error counts), whatever
\* _update_stats does afterwards.
C14_SnapshotIsPointInTime ==
    \A k \in DOMAIN snapshots : Read(snapshots[k].copy) = snapshots[k].seen

\* The categories in the order of their priority, each with the text whose
\* presence selects it and whether the test ignores case.
CategoryRules ==
    << [key |-> "rate_limit", has |-> "429", anyCase |-> FALSE],
       [key |-> "forbidden", has |-> "403", anyCase |-> FALSE],
       [key |-> "timeout", has |-> "timeout", anyCase |-> TRUE],
       [key |-> "connection", has |-> "connection", anyCase |-> TRUE] >>

Matches(rule, text) ==
    Contains(IF rule.has = "429" THEN <<"4", "2", "9">>
             ELSE IF rule.has = "403" THEN <<"4", "0", "3">>
             ELSE Chars(rule.has),
             IF rule.anyCase THEN Lower(Chars(text)) ELSE Chars(text))

\* The category of an error text by the stated priority: that of the first
\* rule that matches, else the first 30 characters of the text.
CategoryOf(text) ==
    LET hits == { k \in DOMAIN CategoryRules : Matches(CategoryRules[k], text) }
    IN  IF hits = {}
        THEN Str(Prefix(Chars(text), 30))
        ELSE CategoryRules[CHOOSE k \in hits : \A j \in hits : k <= j].key

\* C15 as stated: every _update_stats call for a failed result that has an
\* error text adds one to exactly the category the priority gives for that
\* text (429, 403, timeout, connection, else its first 30 characters).
C15_CategoryByPriority ==
    [][ ( /\ ~thread'[1].result.success
          /\ thread'[1].result.error_message # None )
            => stats'.errors
                 = Increment(stats.errors, CategoryOf(thread'[1].result.error_message))
      ]_vars

\* C15, amended: the priority applies to a non-empty error text; a failed
\* result whose error text is absent or empty is counted under "unknown".
C15_CategoryByPriorityOrUnknown ==
    [][ ~thread'[1].result.success
            => stats'.errors
                 = Increment(stats.errors,
                             IF IsTruthy(thread'[1].result.error_message)
                             THEN CategoryOf(thread'[1].result.error_message)
                             ELSE "unknown")
      ]_vars

\* A text holding both "403" and "timeout" was counted as forbidden after a
\* long text without any keyword was counted under its first 30 characters.
C15_Witness ==
    /\ pc = "keys"
    /\ thread[1].result = Failure("HTTP 403: timeout")
    /\ stats.errors = [k \in {"'object' object has no attribu", "forbidden"} |-> 1]

\* The proxy at position j of the round-robin order over the pool.
RoundRobin(j) == Some(proxies[((j - 1) % Len(proxies)) + 1])

\* C16: with strategy round_robin and a pool of K >= 1 proxies whose rotation
\* started at the first proxy, the j-th get_next_proxy call returns the proxy
\* at position ((j - 1) mod K) + 1 of the pool: each proxy once in insertion
\* order in K calls, and the same sequence again in the next K calls.
C16_RoundRobinInInsertionOrder ==
    ( /\ pc = "proxy"
      /\ rotation_strategy = "round_robin"
      /\ Len(proxies) >= 1
      /\ current_proxy_index = Len(returned) % Len(proxies) )
        => \A j \in DOMAIN returned : returned[j] = RoundRobin(j)

\* C17: with strategy country_match and a non-empty pool, a get_next_proxy
\* call that asks for a country returns a proxy of the pool tagged with that
\* country if the pool has one, and otherwise some proxy of the pool.
C17_CountryMatchOrFallback ==
    [][ ( /\ pc = "proxy"
          /\ Len(returned') = Len(returned) + 1
          /\ rotation_strategy = "country_match"
          /\ proxies # <<>>
          /\ thread'[1].country_code \notin {None, ""} )
            => /\ \E k \in DOMAIN proxies : thread'[1].proxy = Some(proxies[k])
               /\ (\E k \in DOMAIN proxies :
                        proxies[k].country = thread'[1].country_code)
                    => thread'[1].proxy[1].country = thread'[1].country_code
      ]_vars

\* A country_match call for a country no proxy of a two-proxy pool is tagged
\* with has returned a proxy, after a call for the country of the first
\* proxy has returned that proxy.
C17_Witness ==
    /\ pc = "proxy"
    /\ rotation_strategy = "country_match"
    /\ Len(proxies) = 2
    /\ Len(returned) = 2
    /\ proxies[1].country = "FR"
    /\ returned[1] = Some(proxies[1])
    /\ thread[1].country_code = "DE"
    /\ thread[1].proxy # NoProxy

\* C18: while the pool of the proxy manager is empty, every get_next_proxy
\* call returns None under every rotation strategy, none raises, the rotation
\* index stays where the constructor put it, and a batch of Subscriber
\* records is submitted whole: every record goes to submit_form with no
\* proxy, and the batch returns one result for each.
C18_EmptyPoolMeansNoProxy ==
    ( /\ proxy_manager
      /\ proxies = <<>> )
        => /\ \A k \in DOMAIN returned : returned[k] = NoProxy
           /\ current_proxy_index = 0
           /\ \A i \in DOMAIN proxy : proxy[i] = NoProxy
           /\ (\A i \in DOMAIN subscribers : subscribers[i].type = "Subscriber")
                => /\ pc # "raised"
                   /\ Len(returned) = (IF pc \in {"seq", "submit"} THEN idx - 1
                                       ELSE Len(subscribers))
                       + (IF pc = "seq" /\ call[idx].pc # "idle" THEN 1 ELSE 0)
                   /\ pc = "done"
                        => /\ Len(results) = Len(subscribers)
                           /\ \A i \in DOMAIN call : call[i].pc = "collected"

\* A batch of two Subscriber records has returned two results although the
\* pool of its round-robin proxy manager is empty.
C18_Witness ==
    /\ proxy_manager
    /\ proxies = <<>>
    /\ rotation_strategy = "round_robin"
    /\ pc = "done"
    /\ Len(subscribers) = 2
    /\ \A i \in DOMAIN subscribers : subscribers[i].type = "Subscriber"
    /\ Len(results) = 2
    /\ returned = <<NoProxy, NoProxy>>

\* C19: when threads call round-robin get_next_proxy concurrently on a pool
\* of K proxies, then whenever no call is in progress the rotation index
\* equals (number of calls made) mod K: no update of the index is lost.
C19_NoLostIndexUpdate ==
    ( /\ pc = "rotate"
      /\ \A t \in DOMAIN thread : thread[t].pc = "idle" )
        => current_proxy_index = Len(returned) % Len(proxies)

\* The positions of the colons of a text.
Colons(cs) == { k \in DOMAIN cs : cs[k] = ":" }

\* A line is well formed when it has at least 4 colon-delimited segments
\* (3 colons) and its second segment is a number.
WellFormed(text) ==
    LET cs == Strip(Chars(text))
        first == CHOOSE k \in Colons(cs) : \A j \in Colons(cs) : k <= j
        second == CHOOSE k \in Colons(cs) \ {first} :
                      \A j \in Colons(cs) \ {first} : k <= j
    IN  /\ Cardinality(Colons(cs)) >= 3
        /\ second > first + 1
        /\ \A k \in (first + 1)..(second - 1) : \E d \in 0..9 : cs[k] = Digit(d)

\* The host a well formed line names: what precedes its first colon.
HostOf(text) ==
    LET cs == Strip(Chars(text))
    IN  Str(SubSeq(cs, 1, (CHOOSE k \in Colons(cs) : \A j \in Colons(cs) : k <= j) - 1))

\* C20: after load_proxies has read a file, the pool holds one proxy for
\* each well formed line of the file and none for the others, in the order
\* of the lines: malformed lines are skipped, the lines before and after
\* them are loaded.
C20_PoolIsTheValidLines ==
    ( /\ pc = "load"
      /\ source.readable )
        => LET valid == SelectSeq(source.lines, WellFormed)
           IN  /\ Len(proxies) = Len(valid)
               /\ \A k \in DOMAIN valid : proxies[k].hostname = HostOf(valid[k])

\* A file whose second line has a non-numeric port and whose first and last
\* lines are well formed has been loaded.
C20_Witness ==
    /\ pc = "load"
    /\ source = File(TRUE, <<"h2:80:u:p_country-US_session-s1", "h1:8x:u:p",
                             " h3:80:u:p ">>)
    /\ Len(proxies) = 2
    /\ proxies[2].hostname = "h3"

\* The record subscribers[i] has a result with success = false in the list
\* (the result of a None record refers to the empty Subscriber, reference 0).
HasFailureResult(i) ==
    \E j \in DOMAIN results :
        /\ ~results[j].success
        /\ results[j].subscriber = (IF subscribers[i].type = "NoneType" THEN 0 ELSE i)

\* C21: no exception leaves submit_batch, on the sequential and on the
\* thread-pool path: when proxy selection fails for a record, when a record
\* is None or when submit_form fails, the call still returns, and the list it
\* returns holds a failure result for that record.
C21_NoExceptionEscapes ==
    /\ pc # "raised"
    /\ pc = "done" =>
          \A i \in DOMAIN subscribers :
             subscribers[i].type # "Subscriber" => HasFailureResult(i)

\* C22: an interrupt between two records does not make submit_batch end by
\* an exception: the call returns the results completed so far; and at every
\* moment the stats are consistent with the completed results,
\* success + failure = total = number of results.
C22_InterruptReturnsCompleted ==
    /\ pc # "interrupted"
    /\ stats.success + stats.failure = stats.total
    /\ stats.total = Len(results)

\* main has called submit_batch.
BatchRun == pc \in {"seq", "done", "raised", "exit0"}

\* C23: main runs the batch only when loading gave at least one record and
\* at least one proxy, and otherwise the process ends with a non-zero status;
\* when the batch has run to its end the process ends with status 0, whatever
\* the results are.
C23_ZeroUsableInputIsHardStop ==
    /\ BatchRun => (subscribers # <<>> /\ proxies # <<>>)
    /\ pc = "exit0" => Len(results) = Len(subscribers)

\* The backoff sleeps of the history.
BackoffSleeps == { p \in DOMAIN log : log[p].ev = "SLEEP" }

\* C24: the sleep taken after attempt number i (counted from 1) lasts between
\* i * RETRY_DELAY_MIN and i * RETRY_DELAY_MAX, after a 429/503, after
\* another retryable status and after a transport failure alike.
C24_BackoffIsLinear ==
    \A p \in BackoffSleeps :
        LET i == log[p].attempt + 1
        IN  /\ i * RETRY_DELAY_MIN <= log[p].delay
            /\ log[p].delay <= i * RETRY_DELAY_MAX

\* A call whose first attempt met a transport failure, whose second a 429 and
\* whose third a 500 has slept after each, the second time for the shortest
\* and the third time for the longest delay allowed.
C24_Witness ==
    /\ Returned
    /\ Cardinality(BackoffSleeps) = 3
    /\ log[1].ev = "OPTIONS" /\ log[1].raised
    /\ \E p \in DOMAIN log : Answered(p, {429}) /\ log[p].attempt = 1
    /\ \E p \in DOMAIN log : Answered(p, {500}) /\ log[p].attempt = 2
    /\ \E p \in BackoffSleeps :
          log[p].attempt = 1 /\ log[p].delay = 2 * RETRY_DELAY_MIN
    /\ \E p \in BackoffSleeps :
          log[p].attempt = 2 /\ log[p].delay = 3 * RETRY_DELAY_MAX

\* C25: a session is used only by the submit_form execution that created
\* it, and two executions that run at the same time hold different sessions.
C25_NoSharedSession ==
    /\ \A k \in DOMAIN log : log[k].used_by \subseteq { log[k].created_by }
    /\ \A i, j \in DOMAIN call :
          (i # j /\ thread[i].session # 0 /\ thread[j].session # 0)
             => thread[i].session # thread[j].session

\* Two executions hold a session at the same time, each after an earlier
\* attempt of its own that sent its requests.
C25_Witness ==
    /\ Len(call) = 2
    /\ thread[1].session # 0 /\ call[1].attempt > 0
    /\ thread[2].session # 0 /\ call[2].attempt > 0
    /\ \E k \in DOMAIN log : log[k].used_by = {1}
    /\ \E k \in DOMAIN log : log[k].used_by = {2}

\* The main requests of the last attempt the call made that got a response.
LastResponses ==
    { p \in MainRequests :
        /\ ~log[p].raised
        /\ \A q \in DOMAIN log : log[q].attempt <= log[p].attempt }

\* C26: the result submit_form returns carries, as its status code, the
\* status of the response its last attempt received, and no status code
\* only when that attempt received no response.
C26_TerminalStatusCode ==
    Returned =>
        /\ \A p \in LastResponses : call[1].result.status_code = log[p].status
        /\ (LastResponses = {}) <=> (call[1].result.status_code = NoStatus)

\* C27: the consumer part of every main request has the fields
\* consumer_country, email and postcode; the country is the record's, or
\* "FR" when the record has none or an empty one; the postcode is the
\* record's, or the empty string; and all the main requests of the call
\* carry the same payload.
C27_PayloadHasDefaults ==
    \A p \in MainRequests :
        /\ {"consumer_country", "email", "postcode"} \subseteq DOMAIN log[p].json
        /\ log[p].json.email = subscribers[1].email
        /\ log[p].json.consumer_country \notin {None, ""}
        /\ log[p].json.consumer_country =
              (IF subscribers[1].country \in {None, ""} THEN "FR"
               ELSE subscribers[1].country)
        /\ log[p].json.postcode # None
        /\ log[p].json.postcode =
              (IF subscribers[1].postcode = None THEN "" ELSE subscribers[1].postcode)
        /\ \A q \in MainRequests : log[q].json = log[p].json

\* A record without country and postcode has been sent three times, with
\* the fallback country and an empty postcode.
C27_Witness ==
    /\ Returned
    /\ subscribers[1].country = None
    /\ subscribers[1].postcode = None
    /\ Cardinality(MainRequests) = MAX_RETRIES
    /\ \A p \in MainRequests :
          log[p].json.consumer_country = "FR" /\ log[p].json.postcode = ""

\* The number of results the calls that have returned gave their callers.
RECURSIVE Sum(_)
Sum(lengths) == IF lengths = <<>> THEN 0 ELSE Head(lengths) + Sum(Tail(lengths))

\* C28: on one BatchSubmitter, stats.total is the number of results its
\* submit_batch calls have produced, the earlier calls and the current one
\* together: every result is counted once and no call resets the counters.
C28_TotalCountsAllResults ==
    stats.total = Sum(log) + Len(results)

\* A second call has returned, after a first call that returned a list of
\* two results, with at least one result of its own.
C28_Witness ==
    /\ pc = "done"
    /\ log = <<2>>
    /\ Len(results) > 0
    /\ stats.total > 2

\* C29: every value get_next_proxy has returned since the pool was loaded is
\* a proxy of the pool when the pool is not empty, under every rotation
\* strategy and for every country argument, and is None exactly when the
\* pool is empty.
C29_NextProxyIsPoolMember ==
    \A k \in DOMAIN returned :
        /\ (returned[k] = NoProxy) <=> (proxies = <<>>)
        /\ returned[k] # NoProxy =>
              \E j \in DOMAIN proxies : returned[k] = Some(proxies[j])

\* C30: whenever the pool is not empty, current_proxy_index is a position
\* of it, also after a load_proxies call that replaced the pool by a shorter
\* one, and no get_next_proxy call raises for reading past the end of the
\* pool.
C30_IndexWithinPool ==
    /\ proxies # <<>> =>
          (0 <= current_proxy_index /\ current_proxy_index < Len(proxies))
    /\ pc # "raised"

\* The sum of the counts of an errors dictionary.
RECURSIVE SumOfCounts(_, _)
SumOfCounts(errors, keys) ==
    IF keys = {} THEN 0
    ELSE LET k == CHOOSE x \in keys : TRUE
         IN  errors[k] + SumOfCounts(errors, keys \ {k})

HasErrorText(result) == result.error_message \notin {None, ""}

C32_NoSleepAfterFinalAttempt ==
    \A k \in DOMAIN log :
        log[k].ev = "SLEEP" => log[k].attempt < MAX_RETRIES - 1

\* What iteration `attempt` of the retry loop sent and paused, in order,
\* its backoff sleep left out.
ExchangeOf(attempt) ==
    LET InAttempt(e) == e.attempt = attempt /\ e.ev # "SLEEP"
        events == SelectSeq(log, InAttempt)
    IN  [k \in DOMAIN events |-> events[k].ev]

\* C33: within every attempt that was begun the pre-flight is sent first,
\* then comes the pause, then the main request, whatever the pre-flight met.
C33_PreflightPauseMain ==
    \A attempt \in 0..(MAX_RETRIES - 1) :
        ExchangeOf(attempt) # <<>>
            => ExchangeOf(attempt) = <<"OPTIONS", "PAUSE", "POST">>

\* The records of the running batch that submit_batch has handed to
\* submit_form or to the executor.
Dispatched == { i \in DOMAIN call : call[i].pc # "idle" }

\* C34: submit_batch asks the pool once for each record, in input order and
\* before the record is handed on (a queued task has its proxy already);
\* the proxy of a record is the one its own request returned and no
\* attempt changes it; with a round-robin pool the rotation index has
\* advanced by the number of records dispatched, the retries of the
\* records adding nothing.
C34_OneProxyRequestPerRecord ==
    /\ Dispatched = 1..Cardinality(Dispatched)
    /\ Len(returned) = Cardinality(Dispatched)
    /\ \A i \in Dispatched : proxy[i] = returned[i]
    /\ \A i \in DOMAIN proxy \ Dispatched : proxy[i] = NoProxy
    /\ (rotation_strategy = "round_robin" /\ proxies # <<>>)
          => current_proxy_index = Len(returned) % Len(proxies)

\* With two workers and a round-robin pool of two, the first record is in
\* its last attempt while the second still waits in the executor: the pool
\* was asked twice and the index is back at 0.
C34_Witness ==
    /\ max_threads = 2
    /\ rotation_strategy = "round_robin"
    /\ Len(proxies) = 2
    /\ Len(call) = 2
    /\ call[1].pc = "loop"
    /\ call[1].attempt = MAX_RETRIES - 1
    /\ call[2].pc = "queued"
    /\ Len(returned) = 2
    /\ current_proxy_index = 0

\* C35: a load_proxies call on a file that cannot be opened does not raise
\* and leaves the pool and the rotation index as they were; on a readable
\* file the new pool is what the file alone gives, whatever the pool held
\* before, so that loading the same file once more changes nothing.
C35_LoadKeepsOrReplacesPool ==
    [][ (\E file \in ProxyFiles : LoadProxies(file))
          => /\ pc' = pc
             /\ ~source'.readable
                   => /\ proxies' = proxies
                      /\ current_proxy_index' = current_proxy_index
             /\ source'.readable
                   => /\ proxies' = LoadedPool(source', <<>>)
                      /\ LoadedPool(source', proxies') = proxies' ]_vars

\* A manager whose pool of two has served one round-robin call was then
\* asked to load a file that cannot be opened: the two proxies and the
\* index 1 are still there.
C35_Witness ==
    /\ pc = "proxy"
    /\ source = NoFile
    /\ Len(proxies) = 2
    /\ current_proxy_index = 1

\* C36: with max_threads = 1 the list of results is in input order at every
\* moment of the batch: the j-th result is the result of the j-th record
\* (for a None record, the result that refers to the empty Subscriber),
\* whether the submission succeeded, failed or raised, and the list holds
\* the results of the records before the one at hand.
C36_SequentialResultsInInputOrder ==
    (max_threads = 1 /\ pc \in {"seq", "done"})
        => /\ Len(results) = (IF pc = "seq" THEN idx - 1 ELSE Len(subscribers))
           /\ \A j \in DOMAIN results :
                 results[j].subscriber =
                    (IF subscribers[j].type = "NoneType" THEN 0 ELSE j)

\* A sequential batch of two records has returned: the first failed, the
\* second succeeded, and the results stand in that order.
C36_Witness ==
    /\ max_threads = 1
    /\ pc = "done"
    /\ Len(results) = 2
    /\ results[1].subscriber = 1 /\ ~results[1].success
    /\ results[2].subscriber = 2 /\ results[2].success

====
